---- MODULE Spec2Model ----
(***************************************************************************)
(* A model of the stac_manager package: the CatalogManager tree of         *)
(* Catalog -> Collection -> Item nodes, the item factories and the         *)
(* STACManager registry of catalog managers.                               *)
(*                                                                         *)
(* Text that the code takes apart (data paths, file extensions, item       *)
(* identifiers derived from file names) is a sequence of one-character     *)
(* strings, so that splitting, lower-casing and stripping are computed.    *)
(* Identifiers the code only compares (collection ids, titles) are plain   *)
(* strings.                                                                *)
(***************************************************************************)
EXTENDS Integers, Sequences, FiniteSets, TLC

VARIABLES cm, factory_mapping, now, last, prev, stac, builder

vars == <<cm, factory_mapping, now, last, prev, stac, builder>>

(* ------------------------------ bounds -------------------------------- *)

\* Most direct children a catalog holds in the model.
MaxChildren == 2
\* Most items the whole tree holds in the model.
MaxItems == 2
\* Last instant the wall clock reaches: datetime.now() returns a later
\* instant at each read until then.
MaxNow == 2
\* STACManager: catalogs registered, get_catalog calls without catalog_id,
\* and collections and items per catalog.
MaxCatalogs == 2
MaxCounter == 2
MaxCatalogChildren == 1
MaxCatalogItems == 1
MaxBuilds == 2

(* --------------------------- small helpers ---------------------------- *)

Range(s) == {s[i] : i \in DOMAIN s}

RECURSIVE MinOf(_)
\* Python's min() over a non-empty list of numbers.
MinOf(s) ==
    IF Len(s) = 1 THEN s[1]
    ELSE LET m == MinOf(Tail(s)) IN IF s[1] <= m THEN s[1] ELSE m

RECURSIVE MaxOf(_)
\* Python's max() over a non-empty list of numbers.
MaxOf(s) ==
    IF Len(s) = 1 THEN s[1]
    ELSE LET m == MaxOf(Tail(s)) IN IF s[1] >= m THEN s[1] ELSE m

RECURSIVE SelectSeqBy(_, _)
\* The subsequence of s whose elements' id differs from id (the list
\* comprehension pystac's remove_child / remove_item build).
SelectSeqBy(s, id) ==
    IF s = <<>> THEN <<>>
    ELSE IF s[1].id = id THEN SelectSeqBy(Tail(s), id)
         ELSE <<s[1]>> \o SelectSeqBy(Tail(s), id)

\* dict.get(key, default)
DictGet(d, k, default) == IF k \in DOMAIN d THEN d[k] ELSE default

\* {**a, **b}: the keys of both, b's value where both have the key.
DictMerge(a, b) ==
    [k \in (DOMAIN a) \cup (DOMAIN b) |-> IF k \in DOMAIN b THEN b[k] ELSE a[k]]

EmptyDict == <<>>

(* ------------------------- text as characters ------------------------- *)

\* str.lower() on the characters the model's paths use.
LowerChar(c) ==
    CASE c = "T" -> "t"
      [] c = "I" -> "i"
      [] c = "F" -> "f"
      [] OTHER -> c

Lower(s) == [i \in DOMAIN s |-> LowerChar(s[i])]

RECURSIVE LStripDot(_)
\* str.lstrip('.')
LStripDot(s) ==
    IF s # <<>> /\ s[1] = "." THEN LStripDot(Tail(s)) ELSE s

\* Index of the last occurrence of c in s, 0 when absent (str.rfind + 1).
LastIndexOf(s, c) ==
    LET hits == {i \in DOMAIN s : s[i] = c}
    IN IF hits = {} THEN 0 ELSE CHOOSE i \in hits : \A j \in hits : j <= i

\* Index of the first occurrence of c in s, 0 when absent.
FirstIndexOf(s, c) ==
    LET hits == {i \in DOMAIN s : s[i] = c}
    IN IF hits = {} THEN 0 ELSE CHOOSE i \in hits : \A j \in hits : i <= j

\* os.path.basename: what follows the last "/".
Basename(p) ==
    LET k == LastIndexOf(p, "/") IN SubSeq(p, k + 1, Len(p))

\* pathlib's PurePath.suffix: the last dot of the name and what follows,
\* empty when the name has no dot, starts with its only dot or ends in one.
PathSuffix(p) ==
    LET name == Basename(p)
        i == LastIndexOf(name, ".")
    IN IF 1 < i /\ i < Len(name) THEN SubSeq(name, i, Len(name)) ELSE <<>>

\* pathlib's PurePath.stem: the name without its suffix.
PathStem(p) ==
    LET name == Basename(p)
        i == LastIndexOf(name, ".")
    IN IF 1 < i /\ i < Len(name) THEN SubSeq(name, 1, i - 1) ELSE name

\* os.path.splitext(p)[-1]: the last dot of the name and what follows,
\* unless only dots precede it.
SplitExt(p) ==
    LET name == Basename(p)
        i == LastIndexOf(name, ".")
    IN IF i > 0 /\ \E j \in 1..(i - 1) : name[j] # "."
       THEN SubSeq(name, i, Len(name)) ELSE <<>>

\* AbstractItem._get_file_name: basename(data_path).split(".")[0]
GetFileName(p) ==
    LET name == Basename(p)
        i == FirstIndexOf(name, ".")
    IN IF i = 0 THEN name ELSE SubSeq(name, 1, i - 1)

(* -------------------- the data sources (backend) ---------------------- *)

\* A Python str literal as characters.
P_a_tif == <<"a", ".", "t", "i", "f">>
P_b_v2_TIF == <<"d", "/", "b", ".", "v", "2", ".", "T", "I", "F">>
P_m_vrt == <<"m", ".", "v", "r", "t">>
P_d_nc == <<"d", ".", "n", "c">>
P_c_json == <<"c", ".", "j", "s", "o", "n">>
P_x_txt == <<"x", ".", "t", "x", "t">>
P_s1_tif == <<"s", "1", ".", "t", "i", "f">>
P_vrt_tif == <<"v", "r", "t", ".", "t", "i", "f">>

\* The bbox GenericExtent falls back to.
GlobalBBox == <<-180, -90, 180, 90>>

\* What the raster / array backend and the remote catalog hold for each data
\* path: bounds, projection info, global attributes, a mosaic's file list
\* (src.files, the mosaic itself first) and a nested catalog's id and items.
Backend(p) ==
    CASE p = P_a_tif ->
           [bounds |-> GlobalBBox, proj |-> [epsg |-> "4326"], attrs |-> EmptyDict,
            files |-> <<P_a_tif>>, catalog_id |-> <<>>, items |-> <<>>]
      [] p = P_b_v2_TIF ->
           [bounds |-> <<0, 0, 10, 10>>, proj |-> [epsg |-> "4326"], attrs |-> EmptyDict,
            files |-> <<P_b_v2_TIF>>, catalog_id |-> <<>>, items |-> <<>>]
      [] p = P_m_vrt ->
           [bounds |-> <<-5, -5, 20, 8>>, proj |-> [epsg |-> "4269"], attrs |-> EmptyDict,
            files |-> <<P_m_vrt, P_s1_tif, P_vrt_tif>>, catalog_id |-> <<>>, items |-> <<>>]
      [] p = P_d_nc ->
           [bounds |-> <<5, -20, 30, 5>>, proj |-> [epsg |-> "4326"],
            attrs |-> [title |-> "nc-title"],
            files |-> <<>>, catalog_id |-> <<>>, items |-> <<>>]
      [] p = P_c_json ->
           [bounds |-> <<-10, 2, 4, 12>>, proj |-> EmptyDict, attrs |-> EmptyDict,
            files |-> <<>>, catalog_id |-> <<"k">>,
            items |-> << [assets |-> (<<"s">> :> [title |-> <<"s">>, href |-> P_s1_tif,
                                                  roles |-> {"data"}])] >>]
      [] OTHER ->
           [bounds |-> GlobalBBox, proj |-> EmptyDict, attrs |-> EmptyDict,
            files |-> <<>>, catalog_id |-> <<>>, items |-> <<>>]

(* ------------------------ metadata extraction ------------------------- *)

Ext_tif == <<".", "t", "i", "f">>
Ext_tiff == <<".", "t", "i", "f", "f">>
Ext_vrt == <<".", "v", "r", "t">>
Ext_nc == <<".", "n", "c">>
Ext_json == <<".", "j", "s", "o", "n">>

\* MetaDataExtractorFactory._extractor_mapping
ExtractorMapping ==
    (Ext_tif :> "TIFMetaData") @@ (Ext_tiff :> "TIFMetaData")
    @@ (Ext_vrt :> "VRTMetaData") @@ (Ext_nc :> "NetCDFMetaData")
    @@ (Ext_json :> "CatalogJsonMetaData")

\* MetaDataExtractor.get_proj_ext_properties: the backend's projection info
\* under "proj:" keys.
GetProjExtProperties(p) ==
    LET info == Backend(p).proj
    IN IF "epsg" \in DOMAIN info THEN [k \in {"proj:epsg"} |-> info.epsg]
       ELSE EmptyDict

\* <extractor class>.extract_metadata() for data path p of extension ext,
\* b being what the backend holds for p.
ExtractorMetadata(cls, p, ext, b) ==
    [id |-> IF cls = "CatalogJsonMetaData" THEN b.catalog_id ELSE <<>>,
     items |-> IF cls = "CatalogJsonMetaData" THEN b.items ELSE <<>>, ext |-> ext,
     err |-> "", bbox |-> b.bounds,
     properties |->
         IF cls = "NetCDFMetaData"
         THEN DictMerge(b.attrs, GetProjExtProperties(p))
         ELSE IF cls = "CatalogJsonMetaData" THEN EmptyDict
         ELSE GetProjExtProperties(p),
     has_vrt_files |-> cls = "VRTMetaData",
     vrt_files |-> IF cls = "VRTMetaData" THEN b.files ELSE <<>>,
     has_id |-> cls = "CatalogJsonMetaData"]

\* MetaDataExtractorFactory.get_metadata_extractor for extension ext, then
\* extract_metadata(); an extension without extractor is a ValueError.
GetMetadataExtractor(p, ext) ==
    IF ext \notin DOMAIN ExtractorMapping
    THEN [id |-> <<>>, items |-> <<>>, ext |-> ext, err |-> "Unsupported file type",
          bbox |-> GlobalBBox, properties |-> EmptyDict, has_vrt_files |-> FALSE,
          vrt_files |-> <<>>, has_id |-> FALSE]
    ELSE ExtractorMetadata(ExtractorMapping[ext], p, ext, Backend(p))

\* MetaDataExtractorFactory.get_metadata_extractor(p).extract_metadata():
\* [err, ext, bbox, properties, has_vrt_files, vrt_files, has_id, id, items];
\* err is "" on success.
ExtractMetadata(p) == GetMetadataExtractor(p, Lower(SplitExt(p)))

(* ------------------------------ errors -------------------------------- *)

\* No exception: the call returned.
NoError ==
    [id |-> "", ext |-> <<>>, type |-> "", text |-> "", wrapped |-> FALSE,
     item |-> <<>>, supported |-> {}]

\* ValueError(text ...) with the values the message formats into it.
ValueError(text, id, item, ext, supported) ==
    [id |-> id, ext |-> ext, type |-> "ValueError", text |-> text,
     wrapped |-> FALSE, item |-> item, supported |-> supported]

\* except ValueError as e: raise ValueError(f"Error creating item: {str(e)}")
WrapError(e) == [e EXCEPT !.wrapped = TRUE]

(* --------------------------- item factories --------------------------- *)

Key_vrt == <<"v", "r", "t">>
Key_stac_catalog == <<"s", "t", "a", "c", "_", "c", "a", "t", "a", "l", "o", "g">>

\* RasterItem.create_assets / NetCDFItem.create_assets: one asset keyed by
\* the file name.
CreateAssetsSingle(p) ==
    GetFileName(p) :> [title |-> GetFileName(p), href |-> p, roles |-> {"data"}]

RECURSIVE VRTSourceAssets(_, _)
\* The loop of VRTItem.create_assets over vrt_files: assets[asset_key] = ...
VRTSourceAssets(assets, files) ==
    IF files = <<>> THEN assets
    ELSE LET key == GetFileName(files[1])
             a == [title |-> key, href |-> files[1], roles |-> {"source"}]
         IN VRTSourceAssets(DictMerge(assets, key :> a), Tail(files))

\* VRTItem.create_assets
CreateAssetsVRT(p, md) ==
    VRTSourceAssets(Key_vrt :> [title |-> <<>>, href |-> p, roles |-> {"data", "vrt"}],
                    md.vrt_files)

RECURSIVE CatalogSourceAssets(_, _)
\* The loop of CatalogJsonItem.create_assets over the nested catalog's items.
CatalogSourceAssets(assets, items) ==
    IF items = <<>> THEN assets
    ELSE CatalogSourceAssets(DictMerge(assets, items[1].assets), Tail(items))

\* CatalogJsonItem.create_assets
CreateAssetsCatalogJson(p, md) ==
    CatalogSourceAssets(
        Key_stac_catalog :> [title |-> <<>>, href |-> p, roles |-> {"data", "stac_catalog"}],
        md.items)

\* The href of an object that was never given one.
NoHref == [item |-> <<>>, root |-> "", col |-> ""]

\* The properties= argument RasterItem / NetCDFItem / CatalogJsonItem pass to
\* pystac.Item: {**kwargs.get('properties', {}), **metadata.get('properties', {})}
ItemProperties(kw, mdprops) ==
    DictMerge(DictGet(kw, "properties", EmptyDict), mdprops)

\* VRTItem.create_item's properties.update({...}) of the extracted properties.
VRTProperties(md) ==
    DictMerge(md.properties,
              [k \in {"vrt:source_count", "vrt:type"} |->
                  IF k = "vrt:type" THEN "mosaic"
                  ELSE IF Len(md.vrt_files) = 0 THEN "0"
                  ELSE IF Len(md.vrt_files) = 1 THEN "1"
                  ELSE IF Len(md.vrt_files) = 2 THEN "2" ELSE "3"])

\* The pystac.Item(...) that <Class>.create_item builds from the extracted
\* metadata md at wall-clock time t.
NewItem(cls, p, kw, t, md) ==
    [id |-> IF cls = "CatalogJsonItem"
            THEN (IF md.has_id THEN md.id ELSE GetFileName(p))
            ELSE DictGet(kw, "item_id", GetFileName(p)),
     assets |-> IF cls = "VRTItem" THEN CreateAssetsVRT(p, md)
                ELSE IF cls = "CatalogJsonItem" THEN CreateAssetsCatalogJson(p, md)
                ELSE CreateAssetsSingle(p),
     href |-> NoHref, bbox |-> md.bbox,
     properties |-> IF cls = "VRTItem" THEN ItemProperties(kw, VRTProperties(md))
                    ELSE ItemProperties(kw, md.properties),
     datetime |-> DictGet(kw, "datetime", t), collection_id |-> ""]

\* create_item once extract_metadata() has returned md or raised md.err.
CreateItemFrom(cls, p, kw, t, md) ==
    IF md.err # ""
    THEN [err |-> ValueError(md.err, "", <<>>, md.ext, {}), item |-> <<>>]
    ELSE [err |-> NoError, item |-> <<NewItem(cls, p, kw, t, md)>>]

\* <Class>.create_item(data_path, **kwargs) at wall-clock time t:
\* [err, item], item being <<the item>>, <<>> when the call raised.
CreateItem(cls, p, kw, t) == CreateItemFrom(cls, p, kw, t, ExtractMetadata(p))

\* ItemFactoryManager._factory_mapping as the class is defined.
DefaultFactoryMapping ==
    (Ext_tif :> "RasterItem") @@ (Ext_tiff :> "RasterItem")
    @@ (Ext_vrt :> "VRTItem") @@ (Ext_nc :> "NetCDFItem")
    @@ (Ext_json :> "CatalogJsonItem")

\* ItemFactoryManager.get_item_factory(data_type) on mapping fm:
\* [err, cls].
GetItemFactory(fm, data_type) ==
    LET key == Lower(data_type)
    IN IF key \in DOMAIN fm
       THEN [cls |-> fm[key], err |-> NoError]
       ELSE [cls |-> "",
             err |-> ValueError("Unsupported data type", "", <<>>, data_type, DOMAIN fm)]

\* ItemFactoryManager.register_factory(data_type, factory_class)
RegisterFactoryOn(fm, data_type, cls) ==
    [k \in (DOMAIN fm) \cup {data_type} |-> IF k = data_type THEN cls ELSE fm[k]]

(* ------------------------------ extents ------------------------------- *)

\* float("inf"): the seed of pystac's Extent.from_items, which
\* Collection.update_extent_from_items calls; -PosInf is float("-inf").
PosInf == 1000

\* GenericExtent(bbox=None, temporal_interval=None).get_extent() at time t:
\* the global bbox and [current_time, current_time].
GenericExtent(t) == [bbox |-> GlobalBBox, interval |-> <<t, t>>]

\* The bbox values of the items, each list seeded as Extent.from_items
\* seeds it.
BoundsValues(items, i, seed) == <<seed>> \o [k \in DOMAIN items |-> items[k].bbox[i]]

\* Collection.update_extent_from_items(): Extent.from_items over the items
\* now in the collection. With no item the bbox stays at the seeds and the
\* interval is [None, None], written <<>>.
ExtentFromItems(items) ==
    [bbox |-> << MinOf(BoundsValues(items, 1, PosInf)),
                 MinOf(BoundsValues(items, 2, PosInf)),
                 MaxOf(BoundsValues(items, 3, -PosInf)),
                 MaxOf(BoundsValues(items, 4, -PosInf)) >>,
     interval |-> IF items = <<>> THEN <<>>
                  ELSE << MinOf([k \in DOMAIN items |-> items[k].datetime]),
                          MaxOf([k \in DOMAIN items |-> items[k].datetime]) >>]

(* ---------------------------- ExtentBuilder --------------------------- *)

\* A datetime: its wall-clock reading, whether it carries a tzinfo, and the
\* offset of that tzinfo from UTC.
Datetime(wall, aware, offset) == [wall |-> wall, aware |-> aware, offset |-> offset]

\* datetime_value.replace(tzinfo=timezone.utc) for a naive datetime_value.
AsAware(d) == IF d.aware THEN d ELSE Datetime(d.wall, TRUE, 0)

\* The point in time by which Python orders and compares aware datetimes.
Instant(d) == d.wall - d.offset

\* min(a, b) / max(a, b) of aware datetimes: the first argument on a tie.
MinDatetime(a, b) == IF Instant(b) < Instant(a) THEN b ELSE a
MaxDatetime(a, b) == IF Instant(b) > Instant(a) THEN b ELSE a

\* datetime.now(timezone.utc) at wall-clock time t.
UtcNow(t) == Datetime(t, TRUE, 0)

\* ExtentBuilder.__init__: bbox and temporal_interval are None (<<>>).
NewExtentBuilder == [bbox |-> <<>>, temporal_interval |-> <<>>]

\* An update_bbox that starts from the global bbox instead of seeding the
\* accumulator with the first bbox it is given.
UpdateBBoxFromGlobal(b, new_bbox) ==
    LET cur == IF b.bbox = <<>> THEN GlobalBBox ELSE b.bbox
    IN [b EXCEPT !.bbox = << MinOf(<<cur[1], new_bbox[1]>>),
                             MinOf(<<cur[2], new_bbox[2]>>),
                             MaxOf(<<cur[3], new_bbox[3]>>),
                             MaxOf(<<cur[4], new_bbox[4]>>) >>]

\* ExtentBuilder.update_bbox(new_bbox)
UpdateBBox(b, new_bbox) ==
    IF b.bbox = <<>> THEN [b EXCEPT !.bbox = new_bbox]
    ELSE [b EXCEPT !.bbox = << MinOf(<<b.bbox[1], new_bbox[1]>>),
                               MinOf(<<b.bbox[2], new_bbox[2]>>),
                               MaxOf(<<b.bbox[3], new_bbox[3]>>),
                               MaxOf(<<b.bbox[4], new_bbox[4]>>) >>]

\* ExtentBuilder.update_temporal_interval(datetime_value)
UpdateTemporalInterval(b, datetime_value) ==
    IF b.temporal_interval = <<>>
    THEN [b EXCEPT !.temporal_interval = <<AsAware(datetime_value), AsAware(datetime_value)>>]
    ELSE [b EXCEPT !.temporal_interval =
             << MinDatetime(b.temporal_interval[1], AsAware(datetime_value)),
                MaxDatetime(b.temporal_interval[2], AsAware(datetime_value)) >>]

\* ExtentBuilder.build() at wall-clock time t: [b, extent, read]. The
\* defaults it falls back to are assigned to self.bbox and
\* self.temporal_interval; read tells whether it read the clock.
Build(b, t) ==
    LET bbox == IF b.bbox = <<>> THEN GlobalBBox ELSE b.bbox
        interval == IF b.temporal_interval = <<>> THEN <<UtcNow(t), UtcNow(t)>>
                    ELSE b.temporal_interval
    IN [b |-> [bbox |-> bbox, temporal_interval |-> interval],
        extent |-> [bbox |-> bbox, interval |-> interval],
        read |-> b.temporal_interval = <<>>]

(* ------------------------------- hrefs -------------------------------- *)

\* <root>/catalog.json
CatalogHref(root) == [item |-> <<>>, root |-> root, col |-> ""]
\* <root>/<collection id>/collection.json
CollectionHref(root, cid) == [item |-> <<>>, root |-> root, col |-> cid]
\* <root>/<collection id>/<item id>/<item id>.json
ItemHref(root, cid, iid) == [item |-> iid, root |-> root, col |-> cid]

(* --------------------------- CollectionManager ------------------------ *)

\* Python's None where a str is expected.
PyNone == "<None>"

\* bool(x) is False for None and for the empty string.
Falsy(x) == x \in {"", PyNone}

\* Extent = None
NoExtent == [bbox |-> <<>>, interval |-> <<>>]

\* CollectionManager.__init__ / create_collection at time t.
CollectionManager(collection_id, title, description, extent, t) ==
    [id |-> IF Falsy(collection_id) THEN "Default collection id" ELSE collection_id,
     items |-> <<>>, title |-> IF Falsy(title) THEN "Default collection title" ELSE title,
     href |-> NoHref, extent |-> IF extent = NoExtent THEN GenericExtent(t) ELSE extent,
     description |-> IF Falsy(description) THEN "Default collection description"
                     ELSE description]

(* ---------------------------- CatalogManager -------------------------- *)

\* CatalogManager._create_root_catalog, held by a manager for catalog_path.
NewCatalogManager(catalog_path) ==
    [catalog_path |-> catalog_path,
     catalog |-> [id |-> "root-catalog", title |-> PyNone, href |-> NoHref,
                  description |-> "root-catalog-desc", catalog_type |-> "SELF_CONTAINED"],
     children |-> <<>>]

\* CatalogManager._collection_exists
CollectionExists(m, collection_id) ==
    \E i \in DOMAIN m.children : m.children[i].id = collection_id

\* Position of the child CatalogManager.get_collection_by_id returns (the
\* first with that id), 0 for None.
CollectionIndex(m, collection_id) ==
    LET hits == {i \in DOMAIN m.children : m.children[i].id = collection_id}
    IN IF hits = {} THEN 0 ELSE CHOOSE i \in hits : \A j \in hits : i <= j

\* Position of the item Collection.get_item returns (the first with that
\* id), 0 for None.
ItemIndex(col, item_id) ==
    LET hits == {i \in DOMAIN col.items : col.items[i].id = item_id}
    IN IF hits = {} THEN 0 ELSE CHOOSE i \in hits : \A j \in hits : i <= j

\* CatalogManager.get_item_by_id: <<item>>, or <<>> for None.
GetItemById(m, collection_id, item_id) ==
    LET ci == CollectionIndex(m, collection_id)
    IN IF ci = 0 THEN <<>>
       ELSE LET ii == ItemIndex(m.children[ci], item_id)
            IN IF ii = 0 THEN <<>> ELSE <<m.children[ci].items[ii]>>

\* Catalog.add_child(child): the child is linked last and, when the catalog
\* has a self href, placed under it.
AddChild(m, col) ==
    LET placed == IF m.catalog.href = NoHref THEN col
                  ELSE [col EXCEPT !.href = CollectionHref(m.catalog.href.root, col.id)]
    IN [m EXCEPT !.children = Append(m.children, placed)]

\* add_child_collection without the _collection_exists check (as in the
\* commented-out earlier CatalogManager): the collection is always attached.
AddChildCollectionUnchecked(m, collection_id, title, description, extent, t) ==
    [m |-> AddChild(m, CollectionManager(collection_id, title, description, extent, t)),
     err |-> NoError, read |-> extent = NoExtent]

\* CatalogManager.add_child_collection at time t: [m, err, read]; read tells
\* whether the call read the clock (GenericExtent does, for a missing extent).
AddChildCollection(m, collection_id, title, description, extent, t) ==
    LET collection == CollectionManager(collection_id, title, description, extent, t)
    IN IF ~CollectionExists(m, collection_id)
       THEN [m |-> AddChild(m, collection), err |-> NoError, read |-> extent = NoExtent]
       ELSE [m |-> m, err |-> NoError, read |-> extent = NoExtent]

\* Catalog.add_item in place of Collection.add_item: the item is linked and
\* placed, but item.set_collection is not called.
CollectionAddItemUnlinked(col, item) ==
    LET placed == IF col.href = NoHref THEN item
                  ELSE [item EXCEPT !.href = ItemHref(col.href.root, col.id, item.id)]
    IN [col EXCEPT !.items = Append(col.items, placed)]

\* Collection.add_item(item): the item is linked last, placed under the
\* collection's self href when it has one, and given the collection's id.
CollectionAddItem(col, item) ==
    LET placed == IF col.href = NoHref THEN item
                  ELSE [item EXCEPT !.href = ItemHref(col.href.root, col.id, item.id)]
    IN [col EXCEPT !.items = Append(col.items, [placed EXCEPT !.collection_id = col.id])]

\* An incremental patch instead of the recomputation: the extent the
\* collection has is only widened by the items, never rebuilt from them.
UpdateExtentWidenOnly(col) ==
    LET e == ExtentFromItems(col.items)
        old == col.extent
    IN [col EXCEPT !.extent =
          [bbox |-> << MinOf(<<old.bbox[1], e.bbox[1]>>), MinOf(<<old.bbox[2], e.bbox[2]>>),
                       MaxOf(<<old.bbox[3], e.bbox[3]>>), MaxOf(<<old.bbox[4], e.bbox[4]>>) >>,
           interval |-> IF old.interval = <<>> THEN e.interval
                        ELSE IF e.interval = <<>> THEN old.interval
                        ELSE << MinOf(<<old.interval[1], e.interval[1]>>),
                                MaxOf(<<old.interval[2], e.interval[2]>>) >>]]

\* collection.update_extent_from_items()
UpdateExtentFromItems(col) == [col EXCEPT !.extent = ExtentFromItems(col.items)]

\* add_item_to_collection once the factory built its item (built.item) or
\* raised (built.err): the collection is looked up, the item attached and
\* the collection's extent updated.
AddBuiltItem(m, collection_id, built, ci) ==
    IF built.err # NoError
    THEN [m |-> m, err |-> WrapError(built.err), item |-> <<>>, read |-> FALSE]
    ELSE IF ci = 0
    THEN [m |-> m,
          err |-> WrapError(ValueError("Collection not found", collection_id,
                                       <<>>, <<>>, {})),
          item |-> built.item, read |-> TRUE]
    ELSE [m |-> [m EXCEPT !.children[ci] =
                     UpdateExtentFromItems(CollectionAddItem(@, built.item[1]))],
          err |-> NoError, item |-> built.item, read |-> TRUE]

\* add_item_to_collection once get_item_factory returned factory.cls or
\* raised factory.err.
AddItemWithFactory(m, collection_id, data_path, kw, t, factory) ==
    IF factory.err # NoError
    THEN [m |-> m, err |-> WrapError(factory.err), item |-> <<>>, read |-> FALSE]
    ELSE AddBuiltItem(m, collection_id, CreateItem(factory.cls, data_path, kw, t),
                      CollectionIndex(m, collection_id))

\* CatalogManager.add_item_to_collection at time t, with the class-level
\* factory mapping fm: [m, err, read, item]; read tells whether the call
\* read the clock (create_item does, once the metadata is extracted), item
\* is <<the item the factory built>>, <<>> when none was built.
AddItemToCollection(m, fm, collection_id, data_path, kw, t) ==
    AddItemWithFactory(m, collection_id, data_path, kw, t,
                       GetItemFactory(fm, LStripDot(Lower(PathSuffix(data_path)))))

\* remove_collection that ignores an identifier it does not find instead of
\* raising: the call returns and the catalog is as it was.
RemoveCollectionSilent(m, collection_id) ==
    [m |-> [m EXCEPT !.children = SelectSeqBy(@, collection_id)], err |-> NoError]

\* CatalogManager.remove_collection: [m, err].
RemoveCollection(m, collection_id) ==
    IF CollectionIndex(m, collection_id) # 0
    THEN [m |-> [m EXCEPT !.children = SelectSeqBy(@, collection_id)], err |-> NoError]
    ELSE [m |-> m,
          err |-> ValueError("Collection not found", collection_id, <<>>, <<>>, {})]

\* CatalogManager.remove_item_from_collection: [m, err].
RemoveItemFromCollection(m, collection_id, item_id) ==
    LET ci == CollectionIndex(m, collection_id)
    IN IF ci = 0
       THEN [m |-> m,
             err |-> ValueError("Collection not found", collection_id, <<>>, <<>>, {})]
       ELSE IF ItemIndex(m.children[ci], item_id) # 0
       THEN [m |-> [m EXCEPT !.children[ci] =
                        UpdateExtentFromItems(
                            [@ EXCEPT !.items = SelectSeqBy(@, item_id)])],
             err |-> NoError]
       ELSE [m |-> m,
             err |-> ValueError("Item not found", collection_id, item_id, <<>>, {})]

\* update_item_properties that replaces the property bag by the given
\* dictionary instead of merging the dictionary into it.
UpdateItemPropertiesReplacing(m, collection_id, item_id, properties) ==
    LET ci == CollectionIndex(m, collection_id)
    IN IF ci = 0
       THEN [m |-> m,
             err |-> ValueError("Collection not found", collection_id, <<>>, <<>>, {})]
       ELSE IF ItemIndex(m.children[ci], item_id) = 0
       THEN [m |-> m, err |-> ValueError("Item not found", "", item_id, <<>>, {})]
       ELSE [m |-> [m EXCEPT !.children[ci].items[ItemIndex(m.children[ci], item_id)]
                                 .properties = properties],
             err |-> NoError]

\* CatalogManager.update_item_properties: [m, err]. Every key of properties
\* is assigned into the property bag of the item get_item returns.
UpdateItemProperties(m, collection_id, item_id, properties) ==
    LET ci == CollectionIndex(m, collection_id)
    IN IF ci = 0
       THEN [m |-> m,
             err |-> ValueError("Collection not found", collection_id, <<>>, <<>>, {})]
       ELSE IF ItemIndex(m.children[ci], item_id) = 0
       THEN [m |-> m, err |-> ValueError("Item not found", "", item_id, <<>>, {})]
       ELSE [m |-> [m EXCEPT !.children[ci].items[ItemIndex(m.children[ci], item_id)]
                                 .properties = DictMerge(@, properties)],
             err |-> NoError]

\* for key in property_keys: if key in item.properties: del item.properties[key]
RECURSIVE DeleteKeys(_, _)
DeleteKeys(d, property_keys) ==
    IF property_keys = <<>> THEN d
    ELSE IF Head(property_keys) \in DOMAIN d
    THEN DeleteKeys([k \in (DOMAIN d) \ {Head(property_keys)} |-> d[k]],
                    Tail(property_keys))
    ELSE DeleteKeys(d, Tail(property_keys))

\* CatalogManager.remove_item_properties: [m, err].
RemoveItemProperties(m, collection_id, item_id, property_keys) ==
    LET ci == CollectionIndex(m, collection_id)
    IN IF ci = 0
       THEN [m |-> m,
             err |-> ValueError("Collection not found", collection_id, <<>>, <<>>, {})]
       ELSE IF ItemIndex(m.children[ci], item_id) = 0
       THEN [m |-> m, err |-> ValueError("Item not found", "", item_id, <<>>, {})]
       ELSE [m |-> [m EXCEPT !.children[ci].items[ItemIndex(m.children[ci], item_id)]
                                 .properties = DeleteKeys(@, property_keys)],
             err |-> NoError]

(* -------------------------------- save -------------------------------- *)

\* pystac.CatalogType
CatalogTypes == {"SELF_CONTAINED", "ABSOLUTE_PUBLISHED", "RELATIVE_PUBLISHED"}

\* CatalogManager._update_all_collection_extents
UpdateAllCollectionExtents(m) ==
    [m EXCEPT !.children = [i \in DOMAIN m.children |-> UpdateExtentFromItems(m.children[i])]]

\* Catalog.normalize_hrefs(root_href): every object of the tree is placed
\* under root_href by the best-practices layout.
NormalizeHrefsUnder(m, root_href) ==
    [m EXCEPT
      !.catalog.href = CatalogHref(root_href),
      !.children = [i \in DOMAIN m.children |->
          [m.children[i] EXCEPT
            !.href = CollectionHref(root_href, m.children[i].id),
            !.items = [k \in DOMAIN m.children[i].items |->
                [m.children[i].items[k] EXCEPT
                  !.href = ItemHref(root_href, m.children[i].id,
                                    m.children[i].items[k].id)]]]]]

\* Hrefs normalized against the catalog's current self href instead of the
\* manager's catalog path: every save nests the tree one level deeper.
NormalizeHrefsNested(m, root_href) ==
    NormalizeHrefsUnder(m, IF m.catalog.href = NoHref THEN root_href
                           ELSE m.catalog.href.root \o "/catalog.json")

\* self.catalog.normalize_hrefs(self.catalog_path)
NormalizeHrefs(m, root_href) == NormalizeHrefsUnder(m, root_href)

\* The JSON document of an item.
ItemDoc(it, self_link, relative) ==
    [id |-> it.id, title |-> "", assets |-> it.assets, bbox |-> it.bbox,
     properties |-> it.properties, interval |-> <<it.datetime>>, description |-> "",
     collection |-> it.collection_id, self_link |-> self_link, relative |-> relative,
     kind |-> "Item", links |-> <<>>]

\* The JSON document of a collection: its fields and its item links.
CollectionDoc(col, self_link, relative) ==
    [id |-> <<col.id>>, title |-> col.title, assets |-> EmptyDict, bbox |-> col.extent.bbox,
     properties |-> EmptyDict, interval |-> col.extent.interval,
     description |-> col.description, collection |-> "", self_link |-> self_link,
     relative |-> relative, kind |-> "Collection",
     links |-> [k \in DOMAIN col.items |-> col.items[k].href]]

\* The JSON document of the root catalog: its fields and its child links.
CatalogDoc(m, self_link, relative) ==
    [id |-> <<m.catalog.id>>, title |-> m.catalog.title, assets |-> EmptyDict,
     bbox |-> <<>>, properties |-> EmptyDict, interval |-> <<>>,
     description |-> m.catalog.description, collection |-> "", self_link |-> self_link,
     relative |-> relative, kind |-> "Catalog",
     links |-> [i \in DOMAIN m.children |-> m.children[i].href]]

\* What Catalog.save writes for one child, in order: its items, then itself.
ChildWrites(col, catalog_type) ==
    [k \in DOMAIN col.items |->
        [href |-> col.items[k].href,
         doc |-> ItemDoc(col.items[k], catalog_type = "ABSOLUTE_PUBLISHED",
                         catalog_type \in {"SELF_CONTAINED", "RELATIVE_PUBLISHED"})]]
    \o << [href |-> col.href,
           doc |-> CollectionDoc(col, catalog_type = "ABSOLUTE_PUBLISHED",
                                 catalog_type \in {"SELF_CONTAINED", "RELATIVE_PUBLISHED"})] >>

RECURSIVE ChildrenWrites(_, _)
ChildrenWrites(children, catalog_type) ==
    IF children = <<>> THEN <<>>
    ELSE ChildWrites(children[1], catalog_type)
         \o ChildrenWrites(Tail(children), catalog_type)

\* Every save_object call of Catalog.save(catalog_type), in order: the
\* children's documents, then the root's.
SaveWrites(m, catalog_type) ==
    ChildrenWrites(m.children, catalog_type)
    \o << [href |-> m.catalog.href,
           doc |-> CatalogDoc(m, catalog_type # "SELF_CONTAINED",
                              catalog_type \in {"SELF_CONTAINED", "RELATIVE_PUBLISHED"})] >>

RECURSIVE WriteAll(_, _)
\* The files after the writes ws, a later write of a path replacing an
\* earlier one.
WriteAll(files, ws) ==
    IF ws = <<>> THEN files
    ELSE WriteAll(DictMerge(files, ws[1].href :> ws[1].doc), Tail(ws))

\* Number of the writes ws that are made: those before the first object
\* without a self href.
WritesMade(ws) ==
    IF \A i \in DOMAIN ws : ws[i].href # NoHref THEN Len(ws)
    ELSE (CHOOSE i \in DOMAIN ws :
             /\ ws[i].href = NoHref
             /\ \A j \in 1..(i - 1) : ws[j].href # NoHref) - 1

\* The save_object calls ws of a save of manager m, made in order:
\* [m, err, out].
SaveObjects(m, ws) ==
    [m |-> m,
     err |-> IF \A i \in DOMAIN ws : ws[i].href # NoHref THEN NoError
             ELSE [NoError EXCEPT !.type = "STACError",
                                  !.text = "Self HREF must be set before saving"],
     out |-> WriteAll(<<>>, SubSeq(ws, 1, WritesMade(ws)))]

\* pystac's Catalog.save(catalog_type): sets the root's catalog type and
\* writes each object to its self href; an object without one raises
\* (STACError) after the objects before it were written.  [m, err, out].
CatalogSave(m, catalog_type) ==
    SaveObjects([m EXCEPT !.catalog.catalog_type = catalog_type],
                SaveWrites(m, catalog_type))

\* The outcome r of a save with the calls made on the catalog, in order.
WithSteps(r, steps) == [m |-> r.m, err |-> r.err, out |-> r.out, steps |-> steps]

\* CatalogManager.save_catalog(catalog_type): [m, err, out, steps]; steps
\* lists the calls it made on the catalog, in order.
SaveCatalog(m, catalog_type) ==
    IF catalog_type \notin CatalogTypes
    THEN [m |-> m, err |-> ValueError("Invalid catalog type", catalog_type, <<>>, <<>>, {}),
          out |-> <<>>, steps |-> <<>>]
    ELSE WithSteps(CatalogSave(NormalizeHrefs(UpdateAllCollectionExtents(m),
                                              m.catalog_path),
                               catalog_type),
                   <<"update_extent_from_items", "normalize_hrefs", "save">>)

(* ------------------------------ STACManager --------------------------- *)

\* CatalogManager.set_catalog_id / set_catalog_title / set_catalog_description:
\* a falsy value leaves the field as it is.
SetCatalogId(m, id) == IF Falsy(id) THEN m ELSE [m EXCEPT !.catalog.id = id]
SetCatalogTitle(m, title) == IF Falsy(title) THEN m ELSE [m EXCEPT !.catalog.title = title]
SetCatalogDescription(m, description) ==
    IF Falsy(description) THEN m ELSE [m EXCEPT !.catalog.description = description]

\* CatalogManager.__init__ for a catalog_path nothing can be loaded from.
CatalogManagerInit(catalog_path, id, title, description) ==
    SetCatalogDescription(
        SetCatalogTitle(SetCatalogId(NewCatalogManager(catalog_path), id), title),
        description)

\* What catalog_loader.load_catalog() can do for a catalog_path, depending on
\* what is stored there: raise because the file is missing, cannot be parsed
\* or cannot be read, or return the stored catalog.
LoadOutcomes == {"missing", "corrupt", "unreadable", "loaded"}

\* The tree stored at catalog_path, as pystac.Catalog.from_file returns it.
StoredCatalog(catalog_path) ==
    [catalog_path |-> catalog_path,
     catalog |-> [id |-> "stored-catalog", title |-> "stored-title",
                  href |-> CatalogHref(catalog_path), description |-> "stored-desc",
                  catalog_type |-> "SELF_CONTAINED"],
     children |-> << [CollectionManager("stored-collection", "T", "D",
                                        [bbox |-> <<0, 0, 1, 1>>, interval |-> <<0, 0>>], 0)
                         EXCEPT !.href = CollectionHref(catalog_path, "stored-collection")] >>]

\* LocalCatalogDataLoader / RemoteCatalogDataLoader.load_catalog() under
\* outcome: [err, m], err being the exception's name, "" when it returned.
LoadCatalog(catalog_path, outcome) ==
    IF outcome = "loaded" THEN [m |-> StoredCatalog(catalog_path), err |-> ""]
    ELSE [m |-> NewCatalogManager(catalog_path),
          err |-> IF outcome = "missing" THEN "FileNotFoundError"
                  ELSE IF outcome = "corrupt" THEN "JSONDecodeError"
                  ELSE "PermissionError"]

\* _load_or_create_catalog catching only a missing file: any other failure
\* of the loader leaves the constructor by that exception.
LoadOrCreateCatalogMissingOnly(catalog_path, loaded) ==
    IF loaded.err = "" THEN [m |-> loaded.m, err |-> NoError]
    ELSE IF loaded.err = "FileNotFoundError"
    THEN [m |-> NewCatalogManager(catalog_path), err |-> NoError]
    ELSE [m |-> NewCatalogManager(catalog_path),
          err |-> [NoError EXCEPT !.type = loaded.err]]

\* CatalogManager._load_or_create_catalog: [m, err]. The bare except turns
\* every failure of the loader into _create_root_catalog().
LoadOrCreateCatalog(catalog_path, loaded) ==
    IF loaded.err = "" THEN [m |-> loaded.m, err |-> NoError]
    ELSE [m |-> NewCatalogManager(catalog_path), err |-> NoError]

\* CatalogManager.__init__(catalog_path, id, title, description) once
\* _load_or_create_catalog has returned or raised: [m, err].
CatalogManagerWith(id, title, description, held) ==
    IF held.err # NoError THEN held
    ELSE [m |-> SetCatalogDescription(SetCatalogTitle(SetCatalogId(held.m, id), title),
                                      description),
          err |-> NoError]

\* CatalogManager.__init__ when load_catalog() ends by outcome: [m, err].
CatalogManagerConstruct(catalog_path, id, title, description, outcome) ==
    CatalogManagerWith(id, title, description,
                       LoadOrCreateCatalog(catalog_path,
                                           LoadCatalog(catalog_path, outcome)))

\* STACManager.__init__: catalog_managers is a dict, kept here in insertion
\* order as a sequence of [id, manager]; counter is _CATALOG_COUNTER.
NewSTACManager == [catalog_managers |-> <<>>, counter |-> 0]

\* Position of catalog_id in self.catalog_managers, 0 when it is no key.
CatalogIndex(s, catalog_id) ==
    LET hits == {i \in DOMAIN s.catalog_managers : s.catalog_managers[i].id = catalog_id}
    IN IF hits = {} THEN 0 ELSE CHOOSE i \in hits : TRUE

\* self.catalog_managers.get(catalog_id), for a catalog_id that is a key.
ManagerOf(s, catalog_id) == s.catalog_managers[CatalogIndex(s, catalog_id)].manager

\* raise ValueError(f"Catalog with ID '{catalog_id}' does not exist.")
NoSuchCatalog(catalog_id) ==
    ValueError("Catalog does not exist", catalog_id, <<>>, <<>>, {})

\* STACManager.get_catalog: [s, id, created]; id is the key the returned
\* manager is stored under.
GetCatalog(s, catalog_path, catalog_id, title, description) ==
    LET generated == catalog_id = PyNone
        id == IF generated THEN "root-catalog-" \o ToString(s.counter) ELSE catalog_id
        counted == IF generated THEN [s EXCEPT !.counter = @ + 1] ELSE s
    IN IF CatalogIndex(s, id) # 0
       THEN [s |-> counted, id |-> id, created |-> FALSE]
       ELSE [s |-> [counted EXCEPT !.catalog_managers =
                       Append(@, [id |-> id,
                                  manager |-> CatalogManagerInit(catalog_path, id,
                                                                 title, description)])],
             id |-> id, created |-> TRUE]

\* The outcome r of a call on the manager at position i of
\* self.catalog_managers, as the outcome of the STACManager method that made
\* it: r with the STACManager s in place of the manager r.m.
OnManager(s, i, r) ==
    [k \in ((DOMAIN r) \ {"m"}) \cup {"s"} |->
        IF k = "s" THEN [s EXCEPT !.catalog_managers[i].manager = r.m] ELSE r[k]]

\* STACManager.add_collection_to_catalog: [s, err, read].
AddCollectionToCatalog(s, catalog_id, collection_id, title, description, extent, t) ==
    IF CatalogIndex(s, catalog_id) = 0
    THEN [s |-> s, err |-> NoSuchCatalog(catalog_id), read |-> FALSE]
    ELSE OnManager(s, CatalogIndex(s, catalog_id),
                   AddChildCollection(ManagerOf(s, catalog_id),
                                      collection_id, title, description, extent, t))

\* STACManager.add_item_to_collection_in_catalog: [s, err, read, item].
AddItemToCollectionInCatalog(s, fm, catalog_id, collection_id, data_path, kw, t) ==
    IF CatalogIndex(s, catalog_id) = 0
    THEN [s |-> s, err |-> NoSuchCatalog(catalog_id), item |-> <<>>, read |-> FALSE]
    ELSE OnManager(s, CatalogIndex(s, catalog_id),
                   AddItemToCollection(ManagerOf(s, catalog_id),
                                       fm, collection_id, data_path, kw, t))

\* STACManager.remove_collection_from_catalog: [s, err].
RemoveCollectionFromCatalog(s, catalog_id, collection_id) ==
    IF CatalogIndex(s, catalog_id) = 0
    THEN [s |-> s, err |-> NoSuchCatalog(catalog_id)]
    ELSE OnManager(s, CatalogIndex(s, catalog_id),
                   RemoveCollection(ManagerOf(s, catalog_id),
                                    collection_id))

\* remove_catalog without its del: the emptied catalog is saved and stays in
\* self.catalog_managers.
KeepSaved(s, i, r) ==
    [s |-> [s EXCEPT !.catalog_managers[i].manager = r.m],
     err |-> r.err, out |-> r.out, steps |-> r.steps]

\* del self.catalog_managers[catalog_id] after the save_catalog() with
\* outcome r of the manager at position i; skipped when the save raised.
DeleteSaved(s, i, r) ==
    [s |-> IF r.err # NoError
           THEN [s EXCEPT !.catalog_managers[i].manager = r.m]
           ELSE [s EXCEPT !.catalog_managers =
                    SubSeq(@, 1, i - 1) \o SubSeq(@, i + 1, Len(@))],
     err |-> r.err, out |-> r.out, steps |-> r.steps]

\* STACManager.remove_catalog: the catalog is emptied, saved by
\* CatalogManager.save_catalog() and dropped from the dict; a save that
\* raises leaves it, emptied, in the dict.  [s, err, out, steps].
RemoveCatalog(s, catalog_id) ==
    IF CatalogIndex(s, catalog_id) = 0
    THEN [s |-> s, err |-> NoSuchCatalog(catalog_id), out |-> <<>>, steps |-> <<>>]
    ELSE DeleteSaved(s, CatalogIndex(s, catalog_id),
                     SaveCatalog([ManagerOf(s, catalog_id)
                                     EXCEPT !.children = <<>>],
                                 "SELF_CONTAINED"))

\* STACManager.save_catalog(catalog_id):
\* catalog_manager.catalog.save(catalog_manager.catalog_path), the path
\* taking the place of Catalog.save's catalog_type.  [s, err, out, steps].
STACSaveCatalog(s, catalog_id) ==
    IF CatalogIndex(s, catalog_id) = 0
    THEN [s |-> s, err |-> NoSuchCatalog(catalog_id), out |-> <<>>, steps |-> <<>>]
    ELSE OnManager(s, CatalogIndex(s, catalog_id),
                   WithSteps(CatalogSave(ManagerOf(s, catalog_id),
                                         ManagerOf(s, catalog_id).catalog_path),
                             <<"save">>))

RECURSIVE SaveAllFrom(_, _, _, _)
RECURSIVE SaveAllNext(_, _, _, _, _)
\* The loop of save_all_catalogs from position i on, out being what the
\* managers before i wrote; the first save_catalog that raises ends it.
SaveAllFrom(s, catalog_type, i, out) ==
    IF i > Len(s.catalog_managers)
    THEN [s |-> s, err |-> NoError, out |-> out]
    ELSE SaveAllNext(s, catalog_type, i, out,
                     SaveCatalog(s.catalog_managers[i].manager, catalog_type))

\* The loop after the save_catalog with outcome r of the manager at i.
SaveAllNext(s, catalog_type, i, out, r) ==
    IF r.err # NoError
    THEN [s |-> [s EXCEPT !.catalog_managers[i].manager = r.m], err |-> r.err,
          out |-> DictMerge(out, r.out)]
    ELSE SaveAllFrom([s EXCEPT !.catalog_managers[i].manager = r.m], catalog_type,
                     i + 1, DictMerge(out, r.out))

\* STACManager.save_all_catalogs(catalog_type): [s, err, out, steps]; steps
\* are the calls made on each catalog reached.
SaveAllCatalogs(s, catalog_type) ==
    SaveAllFrom(s, catalog_type, 1, <<>>)
    @@ [steps |-> IF s.catalog_managers = <<>> THEN <<>>
                  ELSE SaveCatalog(s.catalog_managers[1].manager, catalog_type).steps]

(* ------------------------- inputs of the model ------------------------ *)

\* collection_id arguments: an identifier, the empty string and None.
CollectionIds == {"c1", "", PyNone}

\* Identifiers looked up: the two the model's collections can have and one
\* that is never a child.
LookupIds == {"c1", "Default collection id", "zz"}

\* An extent passed explicitly to add_child_collection.
ExplicitExtent == [bbox |-> <<0, 0, 1, 1>>, interval |-> <<0, 0>>]

\* (title, description, extent) arguments of add_child_collection.
CollectionArgs ==
    { [title |-> "T", extent |-> NoExtent, description |-> "D"],
      [title |-> "T2", extent |-> ExplicitExtent, description |-> ""] }

\* data_path arguments of add_item_to_collection.
DataPaths == {P_a_tif, P_b_v2_TIF, P_x_txt}

\* **kwargs of add_item_to_collection.
UserProperties == [k \in {"proj:epsg", "note"} |-> IF k = "note" THEN "n" ELSE "user"]

KwargsSet ==
    { <<>>,
      [properties |-> UserProperties, datetime |-> 0, item_id |-> <<"b">>] }

\* item_id arguments.
ItemIds == {<<"a">>, <<"b">>, <<"z">>}

\* (data_type, factory_class) arguments of register_factory.
RegisterArgs ==
    { [cls |-> "RasterItem", data_type |-> <<"t", "i", "f">>] }

\* catalog_type arguments of save_catalog, one of them no CatalogType.
SaveArgs == {"SELF_CONTAINED", "catalog.json"}

\* catalog_path arguments of get_catalog.
CatalogPaths == {"root"}

\* catalog_id arguments of get_catalog: none, an identifier, and the first
\* identifier get_catalog generates.
CatalogIdArgs == {PyNone, "k1", "root-catalog-0"}

\* (title, description) arguments of get_catalog.
CatalogArgs == { [catalog_id |-> "", title |-> PyNone, description |-> "K"] }

\* catalog_id arguments of the other STACManager methods.
CatalogKeys == {"k1", "root-catalog-0", "zz"}

\* collection_id and data_path arguments given through STACManager.
STACCollectionIds == {"c1"}
STACDataPaths == {P_a_tif}

\* properties arguments of update_item_properties: a key the extractor set
\* and a key no item has.
PropertyUpdates ==
    { [k \in {"proj:epsg", "custom_property"} |->
          IF k = "proj:epsg" THEN "3857" ELSE "test_value"] }

\* property_keys arguments of remove_item_properties: a key items have, a key
\* no item has, and a key given twice.
PropertyKeyLists == { <<"proj:epsg", "absent", "proj:epsg">> }

\* id / title / description arguments of CatalogManager(...) and of
\* set_catalog_id / set_catalog_title / set_catalog_description.
MetadataValues == {PyNone, "", "test-catalog"}

\* catalog_path arguments of CatalogManager(...): a directory and a file.
ConstructPaths == {"root", "root/catalog.json"}

\* new_bbox arguments of update_bbox.
BBoxes == { <<0, 0, 10, 10>>, <<-5, 2, 3, 20>>, <<1, -7, 2, 2>> }

\* datetime_value arguments of update_temporal_interval: a naive datetime,
\* an aware one east of UTC, and an aware UTC one.
Datetimes == { Datetime(3, FALSE, 0), Datetime(5, TRUE, 3), Datetime(1, TRUE, 0) }

\* An ExtentBuilder just constructed, with what its caller has done with it:
\* the bboxes and datetimes supplied so far, the number of build() calls, and
\* the accumulator as it was before the last call.
NewBuilderState ==
    [obj |-> NewExtentBuilder, boxes |-> {}, stamps |-> {}, builds |-> 0,
     before |-> NewExtentBuilder]

\* data_type arguments of get_item_factory: a key of the mapping, the same in
\* upper case, and the test's 'unsupported'.
DataTypes ==
    { Ext_tif, <<".", "T", "I", "F">>,
      <<"u", "n", "s", "u", "p", "p", "o", "r", "t", "e", "d">> }

\* file_path arguments of get_metadata_extractor.
ExtractorPaths == {P_a_tif, P_b_v2_TIF, P_d_nc, P_x_txt}

(* ------------------------- the state machine -------------------------- *)

\* The record of the last call: its name, arguments, the wall-clock time it
\* ran at, the exception it raised (NoError when it returned), the item an
\* add_item_to_collection built, and for a save what it wrote, which calls
\* it made and whether it repeats the save just before it.
NoCall ==
    [catalog_id |-> "", err |-> NoError, item |-> <<>>, kw |-> <<>>, t |-> 0,
     collection_id |-> "", catalog_type |-> "", item_id |-> <<>>, data_path |-> <<>>,
     out |-> <<>>, steps |-> <<>>, op |-> "init", args |-> <<>>, again |-> FALSE]

\* Number of items in the tree of manager m.
RECURSIVE CountItems(_)
CountItems(children) ==
    IF children = <<>> THEN 0 ELSE Len(children[1].items) + CountItems(Tail(children))

Init ==
    /\ cm = NewCatalogManager("root")
    /\ factory_mapping = DefaultFactoryMapping
    /\ now = 1
    /\ last = NoCall
    /\ prev = NewCatalogManager("root")
    /\ stac = NewSTACManager
    /\ builder = NewBuilderState

\* The caller can make its next call: it has taken the result of the last
\* one, or the last one was an add_item_to_collection or a save_catalog that
\* returned (the calls whose direct sequel the round-trip and idempotence
\* properties are about).
Ready ==
    \/ last.op = "init"
    \/ /\ last.op \in {"add_item_to_collection", "save_catalog"}
       /\ last.err = NoError

\* The caller takes the result of the last call, or handles the exception it
\* raised, and drops it.
Return ==
    /\ last.op # "init"
    /\ last' = NoCall
    /\ prev' = cm
    /\ UNCHANGED <<builder, cm, factory_mapping, now, stac>>

\* The clock after a call: later by one instant when the call read it.
ClockAfter(read) == IF read /\ now < MaxNow THEN now + 1 ELSE now

\* ItemFactoryManager.register_factory(data_type, factory_class)
RegisterFactory ==
    \E a \in RegisterArgs :
        /\ Ready
        /\ factory_mapping' = RegisterFactoryOn(factory_mapping, a.data_type, a.cls)
        /\ last' = [NoCall EXCEPT !.op = "register_factory", !.t = now]
        /\ prev' = cm
        /\ UNCHANGED <<builder, cm, now, stac>>

\* cm.add_child_collection(collection_id, title, description, extent)
AddChildCollectionCall ==
    \E id \in CollectionIds, a \in CollectionArgs :
        \E r \in {AddChildCollection(cm, id, a.title, a.description, a.extent, now)} :
           /\ Ready
           /\ Len(r.m.children) <= MaxChildren
           /\ cm' = r.m
           /\ last' = [NoCall EXCEPT !.op = "add_child_collection",
                                     !.collection_id = id, !.args = a,
                                     !.t = now, !.err = r.err]
           /\ prev' = cm
           /\ now' = ClockAfter(r.read)
           /\ UNCHANGED <<builder, factory_mapping, stac>>

\* cm.add_item_to_collection(collection_id, data_path, **kwargs)
AddItemToCollectionCall ==
    \E id \in LookupIds, p \in DataPaths, kw \in KwargsSet :
        \E r \in {AddItemToCollection(cm, factory_mapping, id, p, kw, now)} :
           /\ Ready
           /\ CountItems(r.m.children) <= MaxItems
           /\ cm' = r.m
           /\ last' = [NoCall EXCEPT !.op = "add_item_to_collection",
                                     !.collection_id = id, !.data_path = p,
                                     !.kw = kw, !.t = now, !.err = r.err,
                                     !.item = r.item]
           /\ prev' = cm
           /\ now' = ClockAfter(r.read)
           /\ UNCHANGED <<builder, factory_mapping, stac>>

\* cm.remove_collection(collection_id)
RemoveCollectionCall ==
    \E id \in LookupIds :
        \E r \in {RemoveCollection(cm, id)} :
           /\ Ready
           /\ cm' = r.m
           /\ last' = [NoCall EXCEPT !.op = "remove_collection",
                                     !.collection_id = id, !.t = now, !.err = r.err]
           /\ prev' = cm
           /\ UNCHANGED <<builder, factory_mapping, now, stac>>

\* cm.remove_item_from_collection(collection_id, item_id)
RemoveItemFromCollectionCall ==
    \E id \in LookupIds, iid \in ItemIds :
        \E r \in {RemoveItemFromCollection(cm, id, iid)} :
           /\ Ready
           /\ cm' = r.m
           /\ last' = [NoCall EXCEPT !.op = "remove_item_from_collection",
                                     !.collection_id = id, !.item_id = iid,
                                     !.t = now, !.err = r.err]
           /\ prev' = cm
           /\ UNCHANGED <<builder, factory_mapping, now, stac>>

\* cm.save_catalog(catalog_type)
SaveCatalogCall ==
    \E ct \in SaveArgs :
        \E r \in {SaveCatalog(cm, ct)} :
           /\ Ready
           /\ cm' = r.m
           /\ last' = [NoCall EXCEPT !.op = "save_catalog", !.catalog_type = ct,
                                     !.t = now, !.err = r.err, !.out = r.out,
                                     !.steps = r.steps,
                                     !.again = /\ last.op = "save_catalog"
                                               /\ last.err = NoError
                                               /\ last.catalog_type = ct]
           /\ prev' = cm
           /\ UNCHANGED <<builder, factory_mapping, now, stac>>

Next ==
    \/ Return
    \/ RegisterFactory
    \/ AddChildCollectionCall
    \/ AddItemToCollectionCall
    \/ RemoveCollectionCall
    \/ RemoveItemFromCollectionCall
    \/ SaveCatalogCall

Spec == Init /\ [][Next]_vars

(* ---------- the state machine with the property-bag operations -------- *)

\* cm.update_item_properties(collection_id, item_id, properties)
UpdateItemPropertiesCall ==
    \E id \in LookupIds, iid \in ItemIds, props \in PropertyUpdates :
        \E r \in {UpdateItemProperties(cm, id, iid, props)} :
           /\ Ready
           /\ cm' = r.m
           /\ last' = [NoCall EXCEPT !.op = "update_item_properties",
                                     !.collection_id = id, !.item_id = iid,
                                     !.args = props, !.t = now, !.err = r.err]
           /\ prev' = cm
           /\ UNCHANGED <<builder, factory_mapping, now, stac>>

\* cm.remove_item_properties(collection_id, item_id, property_keys)
RemoveItemPropertiesCall ==
    \E id \in LookupIds, iid \in ItemIds, keys \in PropertyKeyLists :
        \E r \in {RemoveItemProperties(cm, id, iid, keys)} :
           /\ Ready
           /\ cm' = r.m
           /\ last' = [NoCall EXCEPT !.op = "remove_item_properties",
                                     !.collection_id = id, !.item_id = iid,
                                     !.args = keys, !.t = now, !.err = r.err]
           /\ prev' = cm
           /\ UNCHANGED <<builder, factory_mapping, now, stac>>

\* cm.add_child_collection(collection_id, 'T2', '', extent) of the callers
\* that go on to edit property bags: an identifier, or none (C2's default).
AddChildCollectionForProperties ==
    \E id \in {"c1", ""} :
        \E r \in {AddChildCollection(cm, id, "T2", "", ExplicitExtent, now)} :
           /\ Ready
           /\ Len(r.m.children) <= MaxChildren
           /\ cm' = r.m
           /\ last' = [NoCall EXCEPT !.op = "add_child_collection",
                                     !.collection_id = id, !.t = now, !.err = r.err]
           /\ prev' = cm
           /\ now' = ClockAfter(r.read)
           /\ UNCHANGED <<builder, factory_mapping, stac>>

\* cm.add_item_to_collection(collection_id, data_path, **kwargs) of the same
\* callers, for the data paths a factory can be found for.
AddItemToCollectionForProperties ==
    \E id \in {"c1", "Default collection id"}, p \in {P_a_tif, P_b_v2_TIF},
       kw \in KwargsSet :
        \E r \in {AddItemToCollection(cm, factory_mapping, id, p, kw, now)} :
           /\ Ready
           /\ CountItems(r.m.children) <= MaxItems
           /\ cm' = r.m
           /\ last' = [NoCall EXCEPT !.op = "add_item_to_collection",
                                     !.collection_id = id, !.data_path = p,
                                     !.kw = kw, !.t = now, !.err = r.err,
                                     !.item = r.item]
           /\ prev' = cm
           /\ now' = ClockAfter(r.read)
           /\ UNCHANGED <<builder, factory_mapping, stac>>

NextProperties ==
    \/ Return
    \/ RegisterFactory
    \/ AddChildCollectionForProperties
    \/ AddItemToCollectionForProperties
    \/ UpdateItemPropertiesCall
    \/ RemoveItemPropertiesCall

SpecProperties == Init /\ [][NextProperties]_vars

(* ------------- the state machine of constructing a manager ------------ *)

\* cm = CatalogManager(catalog_path, id, title, description): the manager is
\* the new one when the constructor returns, the one held before when the
\* constructor raises.
CatalogManagerCall ==
    \E cp \in ConstructPaths, id \in MetadataValues, title \in MetadataValues,
       description \in MetadataValues, outcome \in LoadOutcomes :
        \E r \in {CatalogManagerConstruct(cp, id, title, description, outcome)} :
           /\ cm' = IF r.err = NoError THEN r.m ELSE cm
           /\ last' = [NoCall EXCEPT !.op = "CatalogManager",
                                     !.args = [id |-> id, title |-> title,
                                               description |-> description,
                                               catalog_path |-> cp, outcome |-> outcome],
                                     !.t = now, !.err = r.err]
           /\ prev' = cm
           /\ UNCHANGED <<builder, factory_mapping, now, stac>>

\* cm.set_catalog_id(id)
SetCatalogIdCall ==
    \E id \in MetadataValues :
        /\ cm' = SetCatalogId(cm, id)
        /\ last' = [NoCall EXCEPT !.op = "set_catalog_id", !.args = id, !.t = now]
        /\ prev' = cm
        /\ UNCHANGED <<builder, factory_mapping, now, stac>>

\* cm.set_catalog_title(title)
SetCatalogTitleCall ==
    \E title \in MetadataValues :
        /\ cm' = SetCatalogTitle(cm, title)
        /\ last' = [NoCall EXCEPT !.op = "set_catalog_title", !.args = title, !.t = now]
        /\ prev' = cm
        /\ UNCHANGED <<builder, factory_mapping, now, stac>>

\* cm.set_catalog_description(description)
SetCatalogDescriptionCall ==
    \E description \in MetadataValues :
        /\ cm' = SetCatalogDescription(cm, description)
        /\ last' = [NoCall EXCEPT !.op = "set_catalog_description",
                                  !.args = description, !.t = now]
        /\ prev' = cm
        /\ UNCHANGED <<builder, factory_mapping, now, stac>>

NextConstruct ==
    \/ CatalogManagerCall
    \/ SetCatalogIdCall
    \/ SetCatalogTitleCall
    \/ SetCatalogDescriptionCall

SpecConstruct == Init /\ [][NextConstruct]_vars

(* ----------------- the state machine of an ExtentBuilder -------------- *)

\* builder = ExtentBuilder()
ExtentBuilderCall ==
    /\ builder # NewBuilderState
    /\ builder' = NewBuilderState
    /\ last' = [NoCall EXCEPT !.op = "ExtentBuilder", !.t = now]
    /\ UNCHANGED <<cm, factory_mapping, now, prev, stac>>

\* builder.update_bbox(new_bbox)
UpdateBBoxCall ==
    \E new_bbox \in BBoxes :
        /\ builder' = [builder EXCEPT !.obj = UpdateBBox(@, new_bbox),
                                      !.boxes = @ \cup {new_bbox},
                                      !.before = builder.obj]
        /\ last' = [NoCall EXCEPT !.op = "update_bbox", !.args = new_bbox, !.t = now]
        /\ UNCHANGED <<cm, factory_mapping, now, prev, stac>>

\* builder.update_temporal_interval(datetime_value)
UpdateTemporalIntervalCall ==
    \E datetime_value \in Datetimes :
        /\ builder' = [builder EXCEPT !.obj = UpdateTemporalInterval(@, datetime_value),
                                      !.stamps = @ \cup {datetime_value},
                                      !.before = builder.obj]
        /\ last' = [NoCall EXCEPT !.op = "update_temporal_interval",
                                  !.args = datetime_value, !.t = now]
        /\ UNCHANGED <<cm, factory_mapping, now, prev, stac>>

\* builder.build()
BuildCall ==
    \E r \in {Build(builder.obj, now)} :
        /\ builder.builds < MaxBuilds
        /\ builder' = [builder EXCEPT !.obj = r.b, !.builds = @ + 1,
                                      !.before = builder.obj]
        /\ last' = [NoCall EXCEPT !.op = "build", !.t = now, !.out = <<r.extent>>]
        /\ now' = ClockAfter(r.read)
        /\ UNCHANGED <<cm, factory_mapping, prev, stac>>

NextExtent ==
    \/ ExtentBuilderCall
    \/ UpdateBBoxCall
    \/ UpdateTemporalIntervalCall
    \/ BuildCall

SpecExtent == Init /\ [][NextExtent]_vars

(* --------------- the state machine with the two factories ------------- *)

\* MetaDataExtractorFactory.get_metadata_extractor(file_path)
GetMetadataExtractorCall ==
    \E p \in ExtractorPaths :
        \E r \in {ExtractMetadata(p)} :
           /\ Ready
           /\ last' = [NoCall EXCEPT
                          !.op = "get_metadata_extractor", !.data_path = p, !.t = now,
                          !.err = IF r.err = "" THEN NoError
                                  ELSE ValueError(r.err, "", <<>>, r.ext, {})]
           /\ prev' = cm
           /\ UNCHANGED <<builder, cm, factory_mapping, now, stac>>

\* cm.item_factory_manager.get_item_factory(data_type)
GetItemFactoryCall ==
    \E data_type \in DataTypes :
        \E r \in {GetItemFactory(factory_mapping, data_type)} :
           /\ Ready
           /\ last' = [NoCall EXCEPT !.op = "get_item_factory",
                                     !.data_path = data_type, !.t = now,
                                     !.err = r.err]
           /\ prev' = cm
           /\ UNCHANGED <<builder, cm, factory_mapping, now, stac>>

NextFactories ==
    \/ Return
    \/ RegisterFactory
    \/ AddChildCollectionForProperties
    \/ AddItemToCollectionForProperties
    \/ GetMetadataExtractorCall
    \/ GetItemFactoryCall

SpecFactories == Init /\ [][NextFactories]_vars

(* ------------------- the state machine of STACManager ----------------- *)

\* ItemFactoryManager.register_factory(data_type, factory_class)
STACRegisterFactory ==
    \E a \in RegisterArgs :
        /\ a.data_type \notin DOMAIN factory_mapping
        /\ factory_mapping' = RegisterFactoryOn(factory_mapping, a.data_type, a.cls)
        /\ last' = [NoCall EXCEPT !.op = "register_factory", !.t = now]
        /\ UNCHANGED <<builder, cm, now, prev, stac>>

\* stac.get_catalog(catalog_path, catalog_id, title, description)
GetCatalogCall ==
    \E p \in CatalogPaths, id \in CatalogIdArgs, a \in CatalogArgs :
        \E r \in {GetCatalog(stac, p, id, a.title, a.description)} :
           /\ Len(r.s.catalog_managers) <= MaxCatalogs
           /\ r.s.counter <= MaxCounter
           /\ stac' = r.s
           /\ last' = [NoCall EXCEPT !.op = "get_catalog", !.catalog_id = r.id,
                                     !.args = [a EXCEPT !.catalog_id = id],
                                     !.t = now, !.again = ~r.created]
           /\ UNCHANGED <<builder, cm, factory_mapping, now, prev>>

\* stac.add_collection_to_catalog(catalog_id, collection_id, title, description)
AddCollectionToCatalogCall ==
    \E k \in CatalogKeys, id \in STACCollectionIds :
        \E r \in {AddCollectionToCatalog(stac, k, id, "T", "D", NoExtent, now)} :
           /\ \A i \in DOMAIN r.s.catalog_managers :
                 Len(r.s.catalog_managers[i].manager.children) <= MaxCatalogChildren
           /\ stac' = r.s
           /\ last' = [NoCall EXCEPT !.op = "add_collection_to_catalog",
                                     !.catalog_id = k, !.collection_id = id,
                                     !.t = now, !.err = r.err]
           /\ now' = ClockAfter(r.read)
           /\ UNCHANGED <<builder, cm, factory_mapping, prev>>

\* stac.add_item_to_collection_in_catalog(catalog_id, collection_id, data_path)
AddItemToCollectionInCatalogCall ==
    \E k \in CatalogKeys, id \in STACCollectionIds, p \in STACDataPaths :
        \E r \in {AddItemToCollectionInCatalog(stac, factory_mapping, k, id, p, <<>>, now)} :
           /\ \A i \in DOMAIN r.s.catalog_managers :
                 CountItems(r.s.catalog_managers[i].manager.children) <= MaxCatalogItems
           /\ stac' = r.s
           /\ last' = [NoCall EXCEPT !.op = "add_item_to_collection_in_catalog",
                                     !.catalog_id = k, !.collection_id = id,
                                     !.data_path = p, !.t = now, !.err = r.err,
                                     !.item = r.item]
           /\ now' = ClockAfter(r.read)
           /\ UNCHANGED <<builder, cm, factory_mapping, prev>>

\* stac.remove_collection_from_catalog(catalog_id, collection_id)
RemoveCollectionFromCatalogCall ==
    \E k \in CatalogKeys, id \in STACCollectionIds :
        \E r \in {RemoveCollectionFromCatalog(stac, k, id)} :
           /\ stac' = r.s
           /\ last' = [NoCall EXCEPT !.op = "remove_collection_from_catalog",
                                     !.catalog_id = k, !.collection_id = id,
                                     !.t = now, !.err = r.err]
           /\ UNCHANGED <<builder, cm, factory_mapping, now, prev>>

\* stac.remove_catalog(catalog_id)
RemoveCatalogCall ==
    \E k \in CatalogKeys :
        \E r \in {RemoveCatalog(stac, k)} :
           /\ stac' = r.s
           /\ last' = [NoCall EXCEPT !.op = "remove_catalog", !.catalog_id = k,
                                     !.t = now, !.err = r.err, !.out = r.out,
                                     !.steps = r.steps]
           /\ UNCHANGED <<builder, cm, factory_mapping, now, prev>>

\* stac.save_catalog(catalog_id)
STACSaveCatalogCall ==
    \E k \in CatalogKeys :
        \E r \in {STACSaveCatalog(stac, k)} :
           /\ stac' = r.s
           /\ last' = [NoCall EXCEPT !.op = "STACManager.save_catalog",
                                     !.catalog_id = k, !.t = now, !.err = r.err,
                                     !.out = r.out, !.steps = r.steps]
           /\ UNCHANGED <<builder, cm, factory_mapping, now, prev>>

\* stac.save_all_catalogs(catalog_type)
SaveAllCatalogsCall ==
    \E ct \in SaveArgs :
        \E r \in {SaveAllCatalogs(stac, ct)} :
           /\ stac' = r.s
           /\ last' = [NoCall EXCEPT !.op = "save_all_catalogs", !.catalog_type = ct,
                                     !.t = now, !.err = r.err, !.out = r.out,
                                     !.steps = r.steps]
           /\ UNCHANGED <<builder, cm, factory_mapping, now, prev>>

\* save_catalog(catalog_type) called on a manager that get_catalog returned.
ManagerSaveCatalogCall ==
    \E i \in DOMAIN stac.catalog_managers, ct \in SaveArgs :
        \E r \in {SaveCatalog(stac.catalog_managers[i].manager, ct)} :
           /\ stac' = [stac EXCEPT !.catalog_managers[i].manager = r.m]
           /\ last' = [NoCall EXCEPT !.op = "CatalogManager.save_catalog",
                                     !.catalog_id = stac.catalog_managers[i].id,
                                     !.catalog_type = ct, !.t = now, !.err = r.err,
                                     !.out = r.out, !.steps = r.steps]
           /\ UNCHANGED <<builder, cm, factory_mapping, now, prev>>

NextSTAC ==
    \/ STACRegisterFactory
    \/ GetCatalogCall
    \/ AddCollectionToCatalogCall
    \/ AddItemToCollectionInCatalogCall
    \/ RemoveCollectionFromCatalogCall
    \/ RemoveCatalogCall
    \/ STACSaveCatalogCall
    \/ SaveAllCatalogsCall
    \/ ManagerSaveCatalogCall

SpecSTAC == Init /\ [][NextSTAC]_vars

(* ------------------------------ properties ---------------------------- *)

\* The child get_collection_by_id(id) returns in manager m.
Col(m, id) == m.children[CollectionIndex(m, id)]

\* Number of direct children of m with identifier id.
CountChildren(m, id) == Cardinality({i \in DOMAIN m.children : m.children[i].id = id})

\* Number of items of collection col with identifier id.
CountItemsWithId(col, id) == Cardinality({k \in DOMAIN col.items : col.items[k].id = id})

\* The extensions the item factories are documented to support.
SupportedSuffixes == {Ext_tif, Ext_tiff, Ext_vrt, Ext_nc, Ext_json}

\* The last call was op and returned without raising.
Returned(op) == last.op = op /\ last.err = NoError

C2_UniqueChildIds ==
    \A i, j \in DOMAIN cm.children :
        i # j => cm.children[i].id # cm.children[j].id

\* C3: add_item_to_collection(c, path) for a child c and a path of a
\* supported extension whose metadata extraction succeeds returns without
\* error; c then contains the built item, and when c was empty it holds
\* exactly that item and c's extent bbox is the item's bbox.
C3_AddItemToExistingCollectionSucceeds ==
    ( /\ last.op = "add_item_to_collection"
      /\ CollectionExists(prev, last.collection_id)
      /\ Lower(PathSuffix(last.data_path)) \in SupportedSuffixes
      /\ ExtractMetadata(last.data_path).err = "" )
        => /\ last.err = NoError
           /\ last.item # <<>>
           /\ \E k \in DOMAIN Col(cm, last.collection_id).items :
                 Col(cm, last.collection_id).items[k].id = last.item[1].id
           /\ Col(prev, last.collection_id).items = <<>>
                 => /\ Len(Col(cm, last.collection_id).items) = 1
                    /\ Col(cm, last.collection_id).extent.bbox = last.item[1].bbox

\* C4: add_item_to_collection with an identifier that is no child of the
\* catalog and a source of a supported format raises a collection-not-found
\* error naming the identifier and leaves the tree unchanged.
C4_AddItemToMissingCollectionRaisesNotFound ==
    ( /\ last.op = "add_item_to_collection"
      /\ ~CollectionExists(prev, last.collection_id)
      /\ Lower(PathSuffix(last.data_path)) \in SupportedSuffixes
      /\ ExtractMetadata(last.data_path).err = "" )
        => /\ last.err.type = "ValueError"
           /\ last.err.text = "Collection not found"
           /\ last.err.id = last.collection_id
           /\ cm = prev

\* C5: after a successful add_item_to_collection or
\* remove_item_from_collection that leaves the collection with an item, the
\* collection's bbox is the component-wise min of mins and max of maxes over
\* the bboxes of the items now in it, and its interval is [earliest, latest]
\* of their timestamps.
C5_ExtentRecomputedFromItems ==
    (Returned("add_item_to_collection") \/ Returned("remove_item_from_collection"))
        => LET c == Col(cm, last.collection_id)
               I == DOMAIN c.items
           IN I # {} =>
                /\ \A n \in {1, 2} :
                      /\ \E k \in I : c.extent.bbox[n] = c.items[k].bbox[n]
                      /\ \A k \in I : c.extent.bbox[n] <= c.items[k].bbox[n]
                /\ \A n \in {3, 4} :
                      /\ \E k \in I : c.extent.bbox[n] = c.items[k].bbox[n]
                      /\ \A k \in I : c.extent.bbox[n] >= c.items[k].bbox[n]
                /\ Len(c.extent.interval) = 2
                /\ \E k \in I : c.extent.interval[1] = c.items[k].datetime
                /\ \A k \in I : c.extent.interval[1] <= c.items[k].datetime
                /\ \E k \in I : c.extent.interval[2] = c.items[k].datetime
                /\ \A k \in I : c.extent.interval[2] >= c.items[k].datetime

\* C5 happens: an item was removed, an item with another bbox and timestamp
\* is left, and the extent is no longer what it was.
C5_Witness ==
    /\ Returned("remove_item_from_collection")
    /\ Col(cm, last.collection_id).items # <<>>
    /\ Col(cm, last.collection_id).extent.bbox # Col(prev, last.collection_id).extent.bbox
    /\ Col(cm, last.collection_id).extent.interval
          # Col(prev, last.collection_id).extent.interval

\* C6: add_item_to_collection of an item whose identifier is not yet in the
\* collection, directly followed by remove_item_from_collection of that
\* identifier, leaves the collection's items and extent as they were before
\* the item was added.
C6_AddThenRemoveRestoresCollection ==
    [][ ( /\ Returned("add_item_to_collection")
          /\ ItemIndex(Col(prev, last.collection_id), last.item[1].id) = 0
          /\ last'.op = "remove_item_from_collection"
          /\ last'.err = NoError
          /\ last'.collection_id = last.collection_id
          /\ last'.item_id = last.item[1].id )
        => /\ Col(cm', last.collection_id).items = Col(prev, last.collection_id).items
           /\ Col(cm', last.collection_id).extent = Col(prev, last.collection_id).extent
      ]_vars

\* C7: when add_item_to_collection builds an item whose identifier already
\* exists in the collection, the collection afterwards holds exactly one
\* item with that identifier and get_item_by_id returns the new item.
C7_DuplicateItemIdLastWriteWins ==
    ( /\ Returned("add_item_to_collection")
      /\ ItemIndex(Col(prev, last.collection_id), last.item[1].id) # 0 )
        => /\ CountItemsWithId(Col(cm, last.collection_id), last.item[1].id) = 1
           /\ LET got == GetItemById(cm, last.collection_id, last.item[1].id)
              IN /\ got # <<>>
                 /\ got[1].bbox = last.item[1].bbox
                 /\ got[1].datetime = last.item[1].datetime
                 /\ got[1].properties = last.item[1].properties
                 /\ got[1].assets = last.item[1].assets

C10_CallerPropertiesWin ==
    Returned("add_item_to_collection")
        => LET given == DictGet(last.kw, "properties", EmptyDict)
               derived == ExtractMetadata(last.data_path).properties
               got == last.item[1].properties
           IN /\ DOMAIN got = (DOMAIN given) \cup (DOMAIN derived)
              /\ \A k \in DOMAIN given : got[k] = given[k]
              /\ \A k \in (DOMAIN derived) \ (DOMAIN given) : got[k] = derived[k]

\* The operations that save a catalog.
SaveEntryPoints ==
    {"CatalogManager.save_catalog", "save_all_catalogs", "STACManager.save_catalog"}

\* Every collection of manager m has the extent its items give.
ExtentsFromItems(m) ==
    \A i \in DOMAIN m.children :
        m.children[i].extent = ExtentFromItems(m.children[i].items)

\* Every object of manager m has its href under the manager's catalog path.
HrefsNormalized(m) == m = NormalizeHrefs(m, m.catalog_path)

\* C9: a save entry point (CatalogManager.save_catalog,
\* STACManager.save_all_catalogs, STACManager.save_catalog(catalog_id)) that
\* reaches a catalog or writes a document has recomputed every collection's
\* extent, then normalized the hrefs against the catalog path, then
\* serialized: these are the calls it made, in this order, and the catalogs
\* it saved have their extents from their items and their hrefs normalized.
C9_EverySaveRecomputesNormalizesThenSerializes ==
    ( /\ last.op \in SaveEntryPoints
      /\ last.steps # <<>> \/ last.out # <<>> )
        => /\ last.steps = <<"update_extent_from_items", "normalize_hrefs", "save">>
           /\ \A i \in DOMAIN stac.catalog_managers :
                 (last.op = "save_all_catalogs"
                  \/ stac.catalog_managers[i].id = last.catalog_id)
                    => /\ ExtentsFromItems(stac.catalog_managers[i].manager)
                       /\ HrefsNormalized(stac.catalog_managers[i].manager)

\* C11: when no item_id is supplied, the identifier of the item that
\* add_item_to_collection builds for a data path is the path's base name
\* without its extension (Path(data_path).stem), names with more than one
\* dot included.
C11_ItemIdIsPathStem ==
    ( /\ last.op = "add_item_to_collection"
      /\ last.item # <<>>
      /\ "item_id" \notin DOMAIN last.kw )
        => last.item[1].id = PathStem(last.data_path)

\* The nodes of sequence s whose identifier is not id, in their order.
OthersThan(s, id) == SelectSeq(s, LAMBDA x : x.id # id)

\* A not-found error that names identifier id as the missing collection.
CollectionNotFound(e, id) ==
    e.type = "ValueError" /\ e.text = "Collection not found" /\ e.id = id

\* A not-found error that names item_id as the item missing from collection id.
ItemNotFound(e, id, item_id) ==
    e.type = "ValueError" /\ e.text = "Item not found" /\ e.item = item_id /\ e.id = id

\* C12: remove_collection and remove_item_from_collection remove the named
\* node when it exists and every other collection and item stays; when the
\* collection or the item is absent they raise a not-found error that names
\* the missing identifier and the tree is unchanged; after a remove_collection
\* that returned, the identifier is no longer a child of the catalog.
C12_RemoveExactlyNamedOrNotFound ==
    /\ last.op = "remove_collection" =>
          IF CollectionExists(prev, last.collection_id)
          THEN /\ last.err = NoError
               /\ cm.children = OthersThan(prev.children, last.collection_id)
               /\ cm.catalog = prev.catalog
               /\ ~CollectionExists(cm, last.collection_id)
          ELSE /\ CollectionNotFound(last.err, last.collection_id)
               /\ cm = prev
    /\ last.op = "remove_item_from_collection" =>
          IF ~CollectionExists(prev, last.collection_id)
          THEN /\ CollectionNotFound(last.err, last.collection_id)
               /\ cm = prev
          ELSE IF GetItemById(prev, last.collection_id, last.item_id) = <<>>
          THEN /\ ItemNotFound(last.err, last.collection_id, last.item_id)
               /\ cm = prev
          ELSE /\ last.err = NoError
               /\ cm.catalog = prev.catalog
               /\ Len(cm.children) = Len(prev.children)
               /\ \A i \in DOMAIN prev.children :
                     IF i = CollectionIndex(prev, last.collection_id)
                     THEN /\ cm.children[i].items =
                                OthersThan(prev.children[i].items, last.item_id)
                          /\ cm.children[i].id = prev.children[i].id
                          /\ cm.children[i].title = prev.children[i].title
                          /\ cm.children[i].description = prev.children[i].description
                     ELSE cm.children[i] = prev.children[i]

\* C12 happens: a remove_collection that found its collection, holding an
\* item, and left another collection in the catalog.
C12_Witness ==
    /\ Returned("remove_collection")
    /\ CollectionExists(prev, last.collection_id)
    /\ Col(prev, last.collection_id).items # <<>>
    /\ cm.children # <<>>

\* Manager m with the property bag of item ii of child ci replaced by bag.
WithProperties(m, ci, ii, bag) ==
    [m EXCEPT !.children[ci].items[ii].properties = bag]

\* The tree now differs from the tree before the last call at most in the
\* property bag of the item the call named, which went from old to new.
OnlyNamedBagChanged(ci, ii) ==
    /\ ci \in DOMAIN cm.children
    /\ ii \in DOMAIN cm.children[ci].items
    /\ cm = WithProperties(prev, ci, ii, cm.children[ci].items[ii].properties)

\* The last call raised the not-found error its collection / item lookup
\* raises on the tree before the call, and changed nothing.
PropertiesCallNotFound ==
    /\ cm = prev
    /\ IF ~CollectionExists(prev, last.collection_id)
       THEN CollectionNotFound(last.err, last.collection_id)
       ELSE /\ last.err.type = "ValueError"
            /\ last.err.text = "Item not found"
            /\ last.err.item = last.item_id

\* C13: update_item_properties sets exactly the given keys of the named
\* item's property bag (overwriting and adding), remove_item_properties
\* deletes exactly the given keys that are present; every other key, every
\* other item, the item sets and the extents are unchanged; both raise a
\* not-found error and change nothing when the collection or item is absent.
C13_PropertyEditsTouchOnlyGivenKeys ==
    last.op \in {"update_item_properties", "remove_item_properties"} =>
        IF GetItemById(prev, last.collection_id, last.item_id) = <<>>
        THEN PropertiesCallNotFound
        ELSE LET ci == CollectionIndex(prev, last.collection_id)
                 ii == ItemIndex(prev.children[ci], last.item_id)
                 old == prev.children[ci].items[ii].properties
                 new == cm.children[ci].items[ii].properties
             IN /\ last.err = NoError
                /\ OnlyNamedBagChanged(ci, ii)
                /\ IF last.op = "update_item_properties"
                   THEN /\ DOMAIN new = (DOMAIN old) \cup (DOMAIN last.args)
                        /\ \A k \in DOMAIN new :
                              new[k] = IF k \in DOMAIN last.args THEN last.args[k]
                                       ELSE old[k]
                   ELSE /\ DOMAIN new = (DOMAIN old) \ Range(last.args)
                        /\ \A k \in DOMAIN new : new[k] = old[k]

\* C13 happens: an update_item_properties that overwrote a key and added a
\* key on an item holding a third key, in a tree with a second item.
C13_Witness ==
    /\ Returned("update_item_properties")
    /\ CountItems(cm.children) = 2
    /\ LET it == GetItemById(prev, last.collection_id, last.item_id)[1]
       IN /\ "note" \in DOMAIN it.properties
          /\ "proj:epsg" \in DOMAIN it.properties
          /\ "custom_property" \notin DOMAIN it.properties

\* The value a catalog field holding old has after value is passed for it.
Replaced(old, value) == IF value = PyNone \/ value = "" THEN old ELSE value

\* C14: constructing a CatalogManager never fails because of the load: when
\* the loader raises (missing, corrupt, unreadable) the manager holds a fresh
\* root catalog with the default identifier and description and no children;
\* an id, title or description passed to the constructor or to set_catalog_*
\* replaces the current value when non-empty and leaves it when None or empty.
C14_ConstructionSurvivesLoadFailure ==
    /\ last.op = "CatalogManager" =>
          /\ last.err = NoError
          /\ cm.catalog_path = last.args.catalog_path
          /\ last.args.outcome # "loaded" =>
                /\ cm.children = <<>>
                /\ cm.catalog.id = Replaced("root-catalog", last.args.id)
                /\ cm.catalog.title = Replaced(PyNone, last.args.title)
                /\ cm.catalog.description =
                      Replaced("root-catalog-desc", last.args.description)
          /\ last.args.outcome = "loaded" =>
                /\ cm.children = StoredCatalog(last.args.catalog_path).children
                /\ cm.catalog.id = Replaced("stored-catalog", last.args.id)
                /\ cm.catalog.title = Replaced("stored-title", last.args.title)
                /\ cm.catalog.description =
                      Replaced("stored-desc", last.args.description)
    /\ last.op = "set_catalog_id" =>
          cm = [prev EXCEPT !.catalog.id = Replaced(@, last.args)]
    /\ last.op = "set_catalog_title" =>
          cm = [prev EXCEPT !.catalog.title = Replaced(@, last.args)]
    /\ last.op = "set_catalog_description" =>
          cm = [prev EXCEPT !.catalog.description = Replaced(@, last.args)]

\* C14 happens: a constructor whose loader found a corrupt file, called with
\* an identifier and no description, replacing a manager that held a loaded
\* catalog.
C14_Witness ==
    /\ last.op = "CatalogManager"
    /\ last.args.outcome = "corrupt"
    /\ last.args.id = "test-catalog"
    /\ last.args.description = PyNone
    /\ prev.children # <<>>
    /\ cm.catalog.description = "root-catalog-desc"

\* The component-wise min of mins and max of maxes over a set of bboxes.
AggregateBBox(boxes) ==
    << CHOOSE v \in {b[1] : b \in boxes} : \A b \in boxes : v <= b[1],
       CHOOSE v \in {b[2] : b \in boxes} : \A b \in boxes : v <= b[2],
       CHOOSE v \in {b[3] : b \in boxes} : \A b \in boxes : v >= b[3],
       CHOOSE v \in {b[4] : b \in boxes} : \A b \in boxes : v >= b[4] >>

\* [earliest, latest] point in time over a set of datetimes, a naive one
\* read as UTC.
AggregateInterval(stamps) ==
    << CHOOSE v \in {Instant(AsAware(d)) : d \in stamps} :
           \A d \in stamps : v <= Instant(AsAware(d)),
       CHOOSE v \in {Instant(AsAware(d)) : d \in stamps} :
           \A d \in stamps : v >= Instant(AsAware(d)) >>

\* The points in time an interval of aware datetimes runs between.
Instants(interval) == << Instant(interval[1]), Instant(interval[2]) >>

\* bbox outer contains bbox inner.
BBoxContains(outer, inner) ==
    /\ outer[1] <= inner[1] /\ outer[2] <= inner[2]
    /\ outer[3] >= inner[3] /\ outer[4] >= inner[4]

\* interval outer contains the point in time of datetime d.
IntervalContains(outer, d) ==
    Instant(outer[1]) <= Instant(AsAware(d)) /\ Instant(AsAware(d)) <= Instant(outer[2])

\* C15: from an empty builder, whatever the order in which bboxes and
\* timestamps are applied with update_bbox / update_temporal_interval, the
\* extent is the component-wise min of mins and max of maxes over the set of
\* bboxes and [min timestamp, max timestamp] over the set of timestamps; each
\* single update only widens: its result contains the previous extent and
\* the new input.
C15_ExtentAggregationOrderIndependent ==
    /\ builder.builds = 0 =>
          /\ builder.obj.bbox =
                IF builder.boxes = {} THEN <<>> ELSE AggregateBBox(builder.boxes)
          /\ IF builder.stamps = {} THEN builder.obj.temporal_interval = <<>>
             ELSE /\ builder.obj.temporal_interval # <<>>
                  /\ Instants(builder.obj.temporal_interval) =
                        AggregateInterval(builder.stamps)
    /\ last.op = "update_bbox" =>
          /\ BBoxContains(builder.obj.bbox, last.args)
          /\ builder.before.bbox # <<>> =>
                BBoxContains(builder.obj.bbox, builder.before.bbox)
    /\ last.op = "update_temporal_interval" =>
          /\ IntervalContains(builder.obj.temporal_interval, last.args)
          /\ builder.before.temporal_interval # <<>> =>
                /\ IntervalContains(builder.obj.temporal_interval,
                                    builder.before.temporal_interval[1])
                /\ IntervalContains(builder.obj.temporal_interval,
                                    builder.before.temporal_interval[2])

\* C15 happens: the third of three different bboxes has been applied to a
\* builder that was also given three different timestamps.
C15_Witness ==
    /\ last.op = "update_bbox"
    /\ builder.builds = 0
    /\ builder.boxes = BBoxes
    /\ builder.stamps = Datetimes
    /\ builder.obj.bbox # last.args

\* C16: the first bbox / timestamp supplied to a builder seeds the extent to
\* exactly that bbox / timestamp, not to the global default; build() yields
\* the global bbox [-180,-90,180,90] only when no bbox was ever supplied and
\* the interval [now, now] only when no timestamp was ever supplied, and the
\* aggregate of what was supplied otherwise.
C16_FirstUpdateSeedsDefaultOnlyWithoutData ==
    /\ (last.op = "update_bbox" /\ builder.boxes = {last.args}) =>
          builder.obj.bbox = last.args
    /\ (last.op = "update_temporal_interval" /\ builder.stamps = {last.args}) =>
          Instants(builder.obj.temporal_interval) = AggregateInterval({last.args})
    /\ last.op = "build" =>
          /\ last.out[1].bbox = IF builder.boxes = {} THEN GlobalBBox
                                ELSE AggregateBBox(builder.boxes)
          /\ Instants(last.out[1].interval) =
                IF builder.stamps = {} THEN Instants(builder.obj.temporal_interval)
                ELSE AggregateInterval(builder.stamps)
          /\ (builder.stamps = {} /\ builder.builds = 1) =>
                Instants(last.out[1].interval) = <<last.t, last.t>>

\* The child was created by add_child_collection without an extent: of the
\* argument sets in CollectionArgs, the one titled "T" passes extent=None.
CreatedWithoutExtent(col) ==
    \E a \in CollectionArgs : a.extent = NoExtent /\ a.title = col.title

\* C17: a collection created by add_child_collection without an explicit
\* extent has the spatial bbox [-180,-90,180,90] in every reachable state in
\* which it holds no items: after creation, after its last item has been
\* removed and after save_catalog.
C17_EmptyCollectionHasGlobalBBox ==
    \A i \in DOMAIN cm.children :
        (CreatedWithoutExtent(cm.children[i]) /\ cm.children[i].items = <<>>)
            => cm.children[i].extent.bbox = GlobalBBox

\* The last call raised an unsupported-format error that names extension ext
\* and the set supported of supported extensions.
UnsupportedNaming(ext, supported) ==
    /\ last.err.type = "ValueError"
    /\ last.err.text \in {"Unsupported data type", "Unsupported file type"}
    /\ last.err.ext = ext
    /\ last.err.supported = supported

\* C18: get_metadata_extractor and get_item_factory, asked for an extension
\* that is not in their mapping, fail with an unsupported-format error that
\* names the offending extension and the set of supported extensions, and
\* the catalog tree is unchanged.
C18_UnsupportedExtensionNamesBoth ==
    /\ (last.op = "get_item_factory"
          /\ Lower(last.data_path) \notin DOMAIN factory_mapping) =>
            /\ UnsupportedNaming(last.data_path, DOMAIN factory_mapping)
            /\ cm = prev
    /\ (last.op = "get_metadata_extractor"
          /\ Lower(SplitExt(last.data_path)) \notin DOMAIN ExtractorMapping) =>
            /\ UnsupportedNaming(Lower(SplitExt(last.data_path)), DOMAIN ExtractorMapping)
            /\ cm = prev

\* The call recorded in l raised the invalid-catalog-type error for the
\* catalog_type it was given, made no call on a catalog and wrote nothing.
RaisedInvalidCatalogType(l) ==
    /\ l.err.type = "ValueError"
    /\ l.err.text = "Invalid catalog type"
    /\ l.err.id = l.catalog_type
    /\ l.steps = <<>>
    /\ l.out = <<>>

\* C19: CatalogManager.save_catalog and STACManager.save_all_catalogs called
\* with a value that is no catalog type raise an invalid-catalog-type error
\* before any extent is recomputed, any href normalized or anything written,
\* and the trees in memory are unchanged.
C19_InvalidCatalogTypeRaisesFirst ==
    [][ ( /\ last'.op \in {"CatalogManager.save_catalog", "save_all_catalogs"}
          /\ last'.catalog_type \notin CatalogTypes )
            => /\ RaisedInvalidCatalogType(last')
               /\ stac' = stac ]_vars

\* The identifiers self.catalog_managers holds in STACManager s.
RegisteredIds(s) == {s.catalog_managers[i].id : i \in DOMAIN s.catalog_managers}

\* C20: get_catalog is get-or-create by identifier: a call with a catalog_id
\* that is registered returns the manager registered under it and registers
\* nothing, a call with a new catalog_id registers a new manager under that
\* id, and every call without catalog_id registers a new manager under the
\* generated id 'root-catalog-<n>', which was not registered before, n being
\* one more at each such call.
C20_GetCatalogIsGetOrCreate ==
    [][ last'.op = "get_catalog" =>
          IF last'.args.catalog_id # PyNone
          THEN /\ last'.catalog_id = last'.args.catalog_id
               /\ stac'.counter = stac.counter
               /\ IF last'.catalog_id \in RegisteredIds(stac)
                  THEN stac'.catalog_managers = stac.catalog_managers
                  ELSE /\ Len(stac'.catalog_managers) = Len(stac.catalog_managers) + 1
                       /\ SubSeq(stac'.catalog_managers, 1, Len(stac.catalog_managers))
                             = stac.catalog_managers
                       /\ stac'.catalog_managers[Len(stac'.catalog_managers)].id
                             = last'.catalog_id
          ELSE /\ last'.catalog_id = "root-catalog-" \o ToString(stac.counter)
               /\ stac'.counter = stac.counter + 1
               /\ last'.catalog_id \notin RegisteredIds(stac)
               /\ Len(stac'.catalog_managers) = Len(stac.catalog_managers) + 1
               /\ SubSeq(stac'.catalog_managers, 1, Len(stac.catalog_managers))
                     = stac.catalog_managers
               /\ stac'.catalog_managers[Len(stac'.catalog_managers)].id
                     = last'.catalog_id ]_vars

LatNames == <<"lat", "latitude", "Latitude", "LAT", "y", "Y">>
LonNames == <<"lon", "longitude", "Longitude", "LON", "x", "X">>

RECURSIVE LastPresent(_, _)
\* The last name of names that is a variable: the loop without its break.
LastPresent(names, variables) ==
    IF names = <<>> THEN PyNone
    ELSE IF names[Len(names)] \in variables THEN names[Len(names)]
    ELSE LastPresent(SubSeq(names, 1, Len(names) - 1), variables)

RECURSIVE FirstPresent(_, _)
\* for name in names: if name in src.variables: var = name; break
FirstPresent(names, variables) ==
    IF names = <<>> THEN PyNone
    ELSE IF names[1] \in variables THEN names[1]
    ELSE FirstPresent(Tail(names), variables)

\* NetCDFMetaData.get_bbox(src), src mapping each variable of the dataset to
\* its values: [err, bbox].
GetBBox(src) ==
    LET lat_var == FirstPresent(LatNames, DOMAIN src)
        lon_var == FirstPresent(LonNames, DOMAIN src)
    IN IF lat_var = PyNone \/ lon_var = PyNone
       THEN [err |-> ValueError("Could not find latitude and/or longitude variables",
                                "", <<>>, <<>>, {}),
             bbox |-> <<>>]
       ELSE [err |-> NoError,
             bbox |-> <<MinOf(src[lon_var]), MinOf(src[lat_var]),
                        MaxOf(src[lon_var]), MaxOf(src[lat_var])>>]

\* The variables a dataset of the model may hold, with the values of each.
VariableValues ==
    [x |-> <<0, 1>>, lat |-> <<40, 35, 50>>, Latitude |-> <<-3, 4>>, Y |-> <<7>>,
     lon |-> <<-100, -120>>, Longitude |-> <<12, 9, 30>>, time |-> <<1, 2, 3>>]

\* The datasets get_bbox is called with.
Datasets == { [v \in S |-> VariableValues[v]] : S \in SUBSET (DOMAIN VariableValues) }

(* ------------- projection properties in the two packages -------------- *)

\* The two packages that hold a stac_metadata module.
Packages == {"stac_manager", "catalog_manager"}

\* What rio_stac.stac.get_projection_info(src) does: it returns the
\* projection info, with or without an EPSG code, or it raises.
ProjectionOutcomes ==
    { [info |-> [epsg |-> "4269"], raised |-> FALSE],
      [info |-> EmptyDict, raised |-> FALSE],
      [info |-> EmptyDict, raised |-> TRUE] }

\* MetaDataExtractor.get_proj_ext_properties of package pkg when the
\* projection lookup does o: [err, properties]. stac_manager wraps the lookup
\* in try / except and returns {}; catalog_manager returns the comprehension
\* directly.
ProjExtProperties(pkg, o) ==
    IF o.raised
    THEN IF pkg = "stac_manager"
         THEN [err |-> "", properties |-> EmptyDict]
         ELSE [err |-> "get_projection_info raised", properties |-> EmptyDict]
    ELSE [err |-> "",
          properties |-> IF "epsg" \in DOMAIN o.info
                         THEN [k \in {"proj:epsg"} |-> o.info.epsg]
                         ELSE EmptyDict]

\* MetaDataExtractorFactory._extractor_mapping of package pkg.
PackageExtractorMapping(pkg) ==
    IF pkg = "stac_manager" THEN ExtractorMapping
    ELSE [e \in {Ext_tif, Ext_vrt} |-> ExtractorMapping[e]]

\* get_metadata_extractor(p).extract_metadata() of package pkg for a
\* supported path p when the projection lookup does o: [err, bbox, properties].
ExtractMetadataIn(pkg, p, o) ==
    LET cls == PackageExtractorMapping(pkg)[Lower(SplitExt(p))]
        proj == ProjExtProperties(pkg, o)
    IN IF proj.err # ""
       THEN [err |-> proj.err, bbox |-> <<>>, properties |-> EmptyDict]
       ELSE [err |-> "", bbox |-> Backend(p).bounds,
             properties |-> IF cls = "NetCDFMetaData"
                            THEN DictMerge(Backend(p).attrs, proj.properties)
                            ELSE proj.properties]

(* ---------------- the state machine of ItemFactoryManager ------------- *)

\* data_path arguments of create_item: a raster, a mosaic, a
\* multi-dimensional array and a nested catalog.
ItemPaths == {P_a_tif, P_m_vrt, P_d_nc, P_c_json}

Type_custom == <<"c", "u", "s", "t", "o", "m">>
Type_TXT == <<".", "T", "X", "T">>

\* (data_type, factory_class) arguments of register_factory on an
\* ItemFactoryManager: a new lower-case type, a built-in type and a type
\* written in upper case.
FactoryRegistrations ==
    { [cls |-> "CustomItemFactory", data_type |-> Type_custom],
      [cls |-> "CustomItemFactory", data_type |-> Ext_tiff],
      [cls |-> "CustomItemFactory", data_type |-> Type_TXT] }

\* ItemFactoryManager.get_supported_types()
GetSupportedTypes(fm) == DOMAIN fm

\* ItemFactoryManager(MetaDataExtractorFactory()): __init__ stores the
\* extractor factory; _factory_mapping is the class's.
ItemFactoryManagerCall ==
    /\ last' = [NoCall EXCEPT !.op = "ItemFactoryManager", !.t = now]
    /\ UNCHANGED <<builder, cm, factory_mapping, now, prev, stac>>

\* item_factory_manager.register_factory(data_type, factory_class)
RegisterFactoryCall ==
    \E a \in FactoryRegistrations :
        /\ factory_mapping' = RegisterFactoryOn(factory_mapping, a.data_type, a.cls)
        /\ last' = [NoCall EXCEPT !.op = "register_factory", !.args = a, !.t = now]
        /\ UNCHANGED <<builder, cm, now, prev, stac>>

\* item_factory_manager.get_item_factory(<extension of data_path>)
\*     .create_item(data_path, **kwargs), for the item classes of the module.
CreateItemCall ==
    \E p \in ItemPaths, kw \in KwargsSet :
        \E f \in {GetItemFactory(factory_mapping, SplitExt(p))} :
           /\ f.err = NoError
           /\ f.cls \in Range(DefaultFactoryMapping)
           /\ \E r \in {CreateItem(f.cls, p, kw, now)} :
                 last' = [NoCall EXCEPT !.op = "create_item", !.data_path = p,
                                        !.kw = kw, !.args = [cls |-> f.cls],
                                        !.t = now, !.err = r.err, !.item = r.item]
           /\ now' = ClockAfter(TRUE)
           /\ UNCHANGED <<builder, cm, factory_mapping, prev, stac>>

\* NetCDFMetaData(file_path).get_bbox(src)
GetBBoxCall ==
    \E src \in Datasets :
        \E r \in {GetBBox(src)} :
           /\ last' = [NoCall EXCEPT !.op = "get_bbox", !.args = src, !.t = now,
                                     !.err = r.err, !.out = r.bbox]
           /\ UNCHANGED <<builder, cm, factory_mapping, now, prev, stac>>

\* <package>.stac_metadata.MetaDataExtractorFactory
\*     .get_metadata_extractor(file_path).extract_metadata()
ExtractMetadataCall ==
    \E pkg \in Packages, p \in ItemPaths, o \in ProjectionOutcomes :
        /\ Lower(SplitExt(p)) \in DOMAIN PackageExtractorMapping(pkg)
        /\ \E r \in {ExtractMetadataIn(pkg, p, o)} :
              last' = [NoCall EXCEPT
                          !.op = "extract_metadata", !.data_path = p, !.t = now,
                          !.args = [proj |-> o, package |-> pkg],
                          !.err = IF r.err = "" THEN NoError
                                  ELSE [NoError EXCEPT !.type = "Exception", !.text = r.err],
                          !.out = r]
        /\ UNCHANGED <<builder, cm, factory_mapping, now, prev, stac>>

NextItems ==
    \/ ItemFactoryManagerCall
    \/ RegisterFactoryCall
    \/ CreateItemCall
    \/ GetBBoxCall
    \/ ExtractMetadataCall

SpecItems == Init /\ [][NextItems]_vars

\* C22: when create_item is given an explicit item_id, the item it builds has
\* that identifier, whatever the kind of source (raster, mosaic,
\* multi-dimensional array, nested catalog).
C22_ItemIdOverrideHonoured ==
    (last.op = "create_item" /\ last.err = NoError /\ "item_id" \in DOMAIN last.kw)
        => last.item[1].id = last.kw.item_id

\* C23: an ItemFactoryManager that has just been constructed, whenever that
\* happens, reports exactly the supported types .tif, .tiff, .vrt, .nc and
\* .json, mapped to RasterItem, RasterItem, VRTItem, NetCDFItem and
\* CatalogJsonItem: no register_factory has been invoked through it yet.
C23_NewManagerReportsBuiltInTypes ==
    last.op = "ItemFactoryManager"
        => /\ GetSupportedTypes(factory_mapping) = {Ext_tif, Ext_tiff, Ext_vrt, Ext_nc, Ext_json}
           /\ factory_mapping = DefaultFactoryMapping

\* C24: after register_factory(t, F), for any data-type string t in any
\* letter case, get_item_factory(t) returns an instance of F and
\* get_supported_types contains t; registering an existing type replaces the
\* class it maps to.
C24_RegisteredTypeIsRetrievable ==
    last.op = "register_factory"
        => /\ GetItemFactory(factory_mapping, last.args.data_type).err = NoError
           /\ GetItemFactory(factory_mapping, last.args.data_type).cls = last.args.cls
           /\ last.args.data_type \in GetSupportedTypes(factory_mapping)

\* The last call is a create_item that built a mosaic item.
BuiltMosaic ==
    /\ last.op = "create_item"
    /\ last.err = NoError
    /\ last.args.cls = "VRTItem"

\* str(n) for the counts of the model.
CountText(n) == IF n = 0 THEN "0" ELSE IF n = 1 THEN "1" ELSE IF n = 2 THEN "2" ELSE "3"

\* C25: a mosaic item built from a mosaic with N constituent files has one
\* asset for the mosaic definition and N further assets, one per constituent
\* file: a file whose derived name collides with a key already used is kept
\* under another key, so that no file is lost.
C25_MosaicHasOneAssetPerSource ==
    BuiltMosaic =>
        /\ Cardinality(DOMAIN last.item[1].assets)
               = Len(ExtractMetadata(last.data_path).vrt_files) + 1
        /\ \E k \in DOMAIN last.item[1].assets :
               /\ last.item[1].assets[k].href = last.data_path
               /\ "vrt" \in last.item[1].assets[k].roles
        /\ \A i \in DOMAIN ExtractMetadata(last.data_path).vrt_files :
               \E k \in DOMAIN last.item[1].assets :
                   /\ last.item[1].assets[k].href = ExtractMetadata(last.data_path).vrt_files[i]
                   /\ last.item[1].assets[k].roles = {"source"}

\* C26: the sub-sources of a mosaic are the backend's constituent files
\* without the mosaic definition file itself: vrt:source_count does not count
\* the mosaic file and no source asset refers to it.
C26_MosaicIsNotItsOwnSource ==
    BuiltMosaic =>
        /\ last.item[1].properties["vrt:source_count"]
               = CountText(Cardinality({i \in DOMAIN Backend(last.data_path).files :
                                           Backend(last.data_path).files[i] # last.data_path}))
        /\ \A k \in DOMAIN last.item[1].assets :
               "source" \in last.item[1].assets[k].roles
                   => last.item[1].assets[k].href # last.data_path

\* C29: in every mosaic item built by VRTItem the asset under the key 'vrt'
\* refers to the mosaic definition file: its href is the mosaic's data path
\* and its roles are data and vrt, whatever the constituent files are called.
C29_VrtAssetIsTheMosaic ==
    BuiltMosaic =>
        /\ Key_vrt \in DOMAIN last.item[1].assets
        /\ last.item[1].assets[Key_vrt].href = last.data_path
        /\ last.item[1].assets[Key_vrt].roles = {"data", "vrt"}

\* The aliases of names that are variables of dataset src.
PresentAliases(names, src) == {i \in DOMAIN names : names[i] \in DOMAIN src}

\* The values of the variable named by the first alias of names in src.
FirstAliasValues(names, src) ==
    src[names[CHOOSE i \in PresentAliases(names, src) :
                  \A j \in PresentAliases(names, src) : i <= j]]

\* C27: get_bbox succeeds exactly when the dataset has a variable named by a
\* latitude alias and one named by a longitude alias; it then returns
\* [lon_min, lat_min, lon_max, lat_max] over the variables named by the first
\* present alias of each axis, and otherwise raises the error about missing
\* latitude / longitude variables.
C27_BBoxFromFirstAliases ==
    last.op = "get_bbox" =>
        /\ (last.err = NoError)
               <=> (PresentAliases(LatNames, last.args) # {}
                    /\ PresentAliases(LonNames, last.args) # {})
        /\ last.err # NoError
               => /\ last.err.type = "ValueError"
                  /\ last.err.text = "Could not find latitude and/or longitude variables"
        /\ last.err = NoError
               => /\ Len(last.out) = 4
                  /\ \A v \in Range(FirstAliasValues(LonNames, last.args)) :
                         last.out[1] <= v /\ v <= last.out[3]
                  /\ \A v \in Range(FirstAliasValues(LatNames, last.args)) :
                         last.out[2] <= v /\ v <= last.out[4]
                  /\ {last.out[1], last.out[3]} \subseteq Range(FirstAliasValues(LonNames, last.args))
                  /\ {last.out[2], last.out[4]} \subseteq Range(FirstAliasValues(LatNames, last.args))

\* C27 happens: get_bbox has returned for a dataset that holds Latitude and
\* Y but not lat, and two longitude aliases.
C27_Witness ==
    /\ Returned("get_bbox")
    /\ {"Latitude", "Y", "lon", "x"} \subseteq DOMAIN last.args
    /\ "lat" \notin DOMAIN last.args
    /\ last.out = <<-120, -3, -100, 4>>

\* C28: for every extractor of both packages, when deriving the projection
\* properties raises, extract_metadata still returns the metadata record
\* (with its bbox) and the record's properties hold no proj:* entry: the
\* failure does not reach the caller.
C28_ProjectionFailureIsSwallowed ==
    (last.op = "extract_metadata" /\ last.args.proj.raised)
        => /\ last.err = NoError
           /\ last.out.bbox = Backend(last.data_path).bounds
           /\ "proj:epsg" \notin DOMAIN last.out.properties

\* The catalogs registered in STACManager s under another key than
\* catalog_id, in their order.
OtherCatalogs(s, catalog_id) ==
    SelectSeq(s.catalog_managers, LAMBDA e : e.id # catalog_id)

\* C30: remove_catalog(id) raises and changes nothing when id is not
\* registered; otherwise it returns after having saved the catalog emptied
\* of its children and items and deleted id from the registry: the registry
\* no longer contains id and the other registered catalogs are what they
\* were.
C30_RemoveCatalogStep ==
    [][ last'.op = "remove_catalog" =>
          IF CatalogIndex(stac, last'.catalog_id) = 0
          THEN /\ last'.err = NoSuchCatalog(last'.catalog_id)
               /\ stac' = stac
          ELSE /\ last'.err = NoError
               /\ CatalogIndex(stac', last'.catalog_id) = 0
               /\ stac'.catalog_managers = OtherCatalogs(stac, last'.catalog_id)
               /\ stac'.counter = stac.counter
               /\ last'.steps # <<>>
               /\ last'.steps[Len(last'.steps)] = "save"
               /\ DOMAIN last'.out # {}
               /\ \A path \in DOMAIN last'.out :
                      /\ last'.out[path].kind = "Catalog"
                      /\ last'.out[path].id = <<last'.catalog_id>>
                      /\ last'.out[path].links = <<>>
      ]_vars

\* C30 happens: remove_catalog has returned and another catalog, holding a
\* collection with an item, is still registered.
C30_Witness ==
    /\ Returned("remove_catalog")
    /\ \E i \in DOMAIN stac.catalog_managers :
          \E c \in DOMAIN stac.catalog_managers[i].manager.children :
              stac.catalog_managers[i].manager.children[c].items # <<>>

====
